---- MODULE Spec2Model ----
(***************************************************************************)
(* Hierarchical response cache and conversation-context optimizer of the   *)
(* codemonkey extension.                                                   *)
(*                                                                         *)
(* The cache lives in the directory tree ~/.codemonkey/cache.  Two classes *)
(* work on it: CacheService (sub-directories level0..level3, entries carry *)
(* their id and a metadata.timestamp) and HierarchicalCacheService         *)
(* (sub-directories raw, structured, summary, meta; entries carry a        *)
(* top-level timestamp and are named by their hash only).  A file is       *)
(* modelled by the JSON document it holds, a directory by a function from  *)
(* file names (without the .json suffix) to documents, index.json of a     *)
(* directory by a separate document.                                       *)
(***************************************************************************)
EXTENDS Integers, Sequences, FiniteSets, TLC

VARIABLES
    svc,        \* the cache class the running process has instantiated
    now,        \* the value Date.now() returns
    nops,       \* number of cache-mutating calls made so far
    files,      \* directory name -> (file name -> JSON document)
    index,      \* directory name -> [exists, parses, data]: its index.json
    returned,   \* history: [svc, level, content, id] of every completed store
    onlyFreshStores, \* history: every call so far was a store of content not yet stored at its level
    lastOp,     \* history: the last completed call, its arguments and outcome
    currentModel,   \* ModelService.currentModel
    ctx,        \* history: the last optimizeContext call, its arguments and outcome
    sim,        \* history: the last computeStringSimilarity call and its result
    calls,      \* call name -> the store or cleanup in flight under it, at its awaits
    trace,      \* history: the file-system operations of the calls in flight, in order
    crashed,    \* the process was killed while a call was in flight
    pipeline    \* AdaptivePipeline: backpressure, processing, queue, the
                \* intervals that poll the queue, and the history of the jobs

cacheVars == <<svc, now, nops, files, index, returned, onlyFreshStores, lastOp>>

ctxVars == <<currentModel, ctx>>

simVars == <<sim>>

stepVars == <<calls, trace, crashed>>

pipeVars == <<pipeline>>

vars == <<cacheVars, ctxVars, simVars, stepVars, pipeVars>>

---------------------------------------------------------------------------
(* Bounds of the model *)

MaxOps == 3
MaxTime == 1
MaxMaxAge == 1
MaxHistory == 2
MaxCalls == 1
MaxStrLen == 3
MaxIds == 6

(* Inputs *)

Levels == 0..3
Contents == {"alpha", "beta"}
ScenarioContents == {"alpha", "beta", "gamma"}
TagLists == {<<"a">>, <<"b">>, <<"a", "b">>}
QueryTagLists == {<<"a">>, <<"b">>, <<"a", "b">>, <<"b", "a">>}
MaxAges == 0..MaxMaxAge
Services == {"CacheService", "HierarchicalCacheService"}

Undefined == "undefined"

\* what the text-generation collaborator answers when it answers
SummaryTexts == {"Earlier: greetings only."}

---------------------------------------------------------------------------
(* JavaScript arrays and objects *)

Range(s) == {s[i] : i \in 1..Len(s)}

Includes(arr, x) == \E i \in 1..Len(arr) : arr[i] = x

Push(arr, x) == Append(arr, x)

EmptyObject == [k \in {} |-> <<>>]

\* obj[key] = value
SetKey(obj, key, value) ==
    [k \in DOMAIN obj \cup {key} |-> IF k = key THEN value ELSE obj[k]]

\* delete of one key
DeleteKey(obj, key) == [k \in DOMAIN obj \ {key} |-> obj[k]]

\* JSON.stringify leaves out a property whose value is undefined; the only
\* properties of an entry that can be undefined are parentId and parentHash.
JSONStringify(obj) ==
    [k \in {f \in DOMAIN obj :
                ~(f \in {"parentId", "parentHash"} /\ obj[f] = Undefined)}
        |-> obj[k]]

\* JSON.parse gives back the document; a property left out reads as undefined.
JSONParse(text) == text

Prop(obj, key) == IF key \in DOMAIN obj THEN obj[key] ELSE Undefined

\* new Set(arr) keeps the first occurrence of each element, in order
RECURSIVE ArrayFromSet(_)
ArrayFromSet(arr) ==
    IF arr = <<>> THEN <<>>
    ELSE LET front == ArrayFromSet(SubSeq(arr, 1, Len(arr) - 1))
             last == arr[Len(arr)]
         IN IF Includes(front, last) THEN front ELSE Append(front, last)

\* fs.readdir: the names of a directory in the order the file system lists
\* them; the order is fixed but arbitrary.
RECURSIVE Readdir(_)
Readdir(dir) ==
    IF DOMAIN dir = {} THEN <<>>
    ELSE LET n == CHOOSE x \in DOMAIN dir : TRUE
         IN <<n>> \o Readdir(DeleteKey(dir, n))

NoIndex == [exists |-> FALSE, parses |-> FALSE, data |-> EmptyObject]

IndexFile(data) == [exists |-> TRUE, parses |-> TRUE, data |-> data]

\* an index.json whose text JSON.parse rejects
Unparseable == [exists |-> TRUE, parses |-> FALSE, data |-> EmptyObject]

\* readFile and JSON.parse in one try block: both succeed or the catch runs
Readable(indexFile) == indexFile.exists /\ indexFile.parses

---------------------------------------------------------------------------
(* Content fingerprint: the first 12 hex digits of SHA-256 *)

\* contents of the entries that are searched by similarity
SearchContents == {"alpha", "alphabet", "a"}

Sha256Hex12 ==
    [c \in ScenarioContents \cup SummaryTexts \cup SearchContents |->
        CASE c = "alpha" -> "8ed3f6ad685b"
          [] c = "beta"  -> "f44e64e75f39"
          [] c = "gamma" -> "be9d587defa1"
          [] c = "alphabet" -> "4dd4f3835505"
          [] c = "a" -> "ca978112ca1b"
          [] c = "Earlier: greetings only." -> "1b70c286f966"]

ParentArgs == {Undefined, Sha256Hex12["alpha"]}

NoFault == [level |-> -1, kind |-> "none"]

\* the step of a cleanup at which the file system raises: listing the level's
\* directory, or writing the level's rebuilt index.json
Faults ==
    {NoFault} \cup [level : Levels, kind : {"readdir", "writeIndex"}]

---------------------------------------------------------------------------
(* CacheService *)

CacheService_getLevelPath(level) ==
    <<"level0", "level1", "level2", "level3">>[level + 1]

CacheService_generateId_Counter(content) ==
    IF nops = 0 THEN Sha256Hex12[content] ELSE "000000000000"

CacheService_generateId(content) == Sha256Hex12[content]

CacheService_newEntry_NoTags(level, content, tags, parentId) ==
    [id |-> CacheService_generateId(content), level |-> level,
     content |-> content, tags |-> <<>>, parentId |-> parentId,
     metadata |-> [timestamp |-> now]]

\* the entry object store() builds
CacheService_newEntry(level, content, tags, parentId) ==
    [id |-> CacheService_generateId(content), level |-> level,
     content |-> content, tags |-> tags, parentId |-> parentId,
     metadata |-> [timestamp |-> now]]

RECURSIVE CacheService_addTags(_, _, _)
CacheService_addTags(data, id, tags) ==
    IF tags = <<>> THEN data
    ELSE LET tag == Head(tags)
             d1 == IF tag \in DOMAIN data THEN data ELSE SetKey(data, tag, <<>>)
             d2 == IF Includes(d1[tag], id) THEN d1
                   ELSE SetKey(d1, tag, Push(d1[tag], id))
         IN CacheService_addTags(d2, id, Tail(tags))

\* updateIndex: the index.json that results from adding id under each tag;
\* an index.json that cannot be read counts as the empty object
CacheService_updateIndex(indexFile, id, tags) ==
    IndexFile(CacheService_addTags(
        IF Readable(indexFile) THEN indexFile.data ELSE EmptyObject, id, tags))

Null == [found |-> FALSE]

\* get: the parsed entry, or null when readFile throws (no such file, or no
\* such directory when the level is not one of the four)
CacheService_get(id, level) ==
    IF level \notin Levels THEN Null
    ELSE LET dir == files[CacheService_getLevelPath(level)]
         IN IF id \in DOMAIN dir THEN JSONParse(dir[id]) ELSE Null

CacheService_isExpired_Inclusive(entry, maxAge) ==
    now - entry.metadata.timestamp >= maxAge

CacheService_isExpired_OffByOne(entry, maxAge) ==
    now - entry.metadata.timestamp > maxAge + 1

CacheService_isExpired(entry, maxAge) ==
    now - entry.metadata.timestamp > maxAge

\* the eviction loop of cleanup over one level's listing; invalidate()
\* unlinks the file named by the entry's id and swallows any error
RECURSIVE CacheService_evict(_, _, _)
CacheService_evict(dir, names, maxAge) ==
    IF names = <<>> THEN dir
    ELSE LET file == Head(names)
             entry == JSONParse(dir[file])
         IN IF file \notin DOMAIN dir
                THEN CacheService_evict(dir, Tail(names), maxAge)
            ELSE IF CacheService_isExpired(entry, maxAge)
                THEN CacheService_evict(DeleteKey(dir, entry.id), Tail(names), maxAge)
            ELSE CacheService_evict(dir, Tail(names), maxAge)

RECURSIVE CacheService_indexOf(_, _, _)
CacheService_indexOf(dir, names, data) ==
    IF names = <<>> THEN data
    ELSE LET entry == JSONParse(dir[Head(names)])
         IN CacheService_indexOf(dir, Tail(names),
                CacheService_addTags(data, entry.id, entry.tags))

CacheService_rebuildIndex_FirstTag(dir) ==
    IndexFile(CacheService_indexOf(
        [n \in DOMAIN dir |-> [dir[n] EXCEPT !.tags = SubSeq(@, 1, 1)]],
        Readdir(dir), EmptyObject))

\* rebuildIndex: the index.json computed from the entries of a directory
CacheService_rebuildIndex(dir) ==
    IndexFile(CacheService_indexOf(dir, Readdir(dir), EmptyObject))

\* cleanup: levels 0..3 in turn inside one try block, so the first error
\* ends the whole loop.  st = [files, index, passed].
RECURSIVE CacheService_cleanupLoop(_, _, _, _)
CacheService_cleanupLoop(level, st, maxAge, fault) ==
    IF level > 3 THEN st
    ELSE IF fault.level = level /\ fault.kind = "readdir" THEN st
    ELSE LET d == CacheService_getLevelPath(level)
             kept == CacheService_evict(st.files[d], Readdir(st.files[d]), maxAge)
             evicted == [st EXCEPT !.files[d] = kept]
         IN IF fault.level = level /\ fault.kind = "writeIndex" THEN evicted
            ELSE CacheService_cleanupLoop(level + 1,
                    [evicted EXCEPT !.index[d] = CacheService_rebuildIndex(kept),
                                    !.passed = @ \cup {level}],
                    maxAge, fault)

---------------------------------------------------------------------------
(* History bookkeeping *)

Op(name) ==
    [op |-> name, level |-> 0, content |-> "", tags |-> <<>>,
     parentId |-> Undefined, id |-> "", maxAge |-> 0, fault |-> NoFault,
     passed |-> {}, before |-> files, time |-> now, result |-> <<>>,
     query |-> "", threshold |-> [num |-> 0, den |-> 1]]

Called ==
    /\ nops < MaxOps
    /\ nops' = nops + 1

---------------------------------------------------------------------------
(* CacheService: the calls *)

CacheService_store(level, content, tags, parentId) ==
    LET entry == CacheService_newEntry(level, content, tags, parentId)
        d == CacheService_getLevelPath(level)
    IN /\ svc = "CacheService"
       /\ Called
       /\ files' = [files EXCEPT ![d] = SetKey(@, entry.id, JSONStringify(entry))]
       /\ index' = [index EXCEPT ![d] = CacheService_updateIndex(@, entry.id, tags)]
       /\ returned' = returned \cup
            {[svc |-> svc, level |-> level, content |-> content, id |-> entry.id]}
       /\ onlyFreshStores' =
            (onlyFreshStores /\ ~\E r \in returned : r.level = level /\ r.content = content)
       /\ lastOp' = [Op("store") EXCEPT !.level = level, !.content = content,
                        !.tags = tags, !.parentId = parentId, !.id = entry.id]
       /\ UNCHANGED <<svc, now, currentModel, ctx, simVars, pipeVars, stepVars>>

\* fs.unlink of a file that is absent
CacheService_unlink_ClearsLevel(dir, id) ==
    IF id \in DOMAIN dir THEN DeleteKey(dir, id) ELSE EmptyObject

\* fs.unlink inside the try: a file that is absent makes it throw, the
\* catch logs, and the directory is as before
CacheService_unlink(dir, id) ==
    IF id \in DOMAIN dir THEN DeleteKey(dir, id) ELSE dir

CacheService_invalidate(id, level) ==
    LET d == CacheService_getLevelPath(level)
    IN /\ svc = "CacheService"
       /\ Called
       /\ files' = [files EXCEPT ![d] = CacheService_unlink(@, id)]
       /\ onlyFreshStores' = FALSE
       /\ lastOp' = [Op("invalidate") EXCEPT !.level = level, !.id = id]
       /\ UNCHANGED <<svc, now, index, returned, currentModel, ctx, simVars, pipeVars,
                      stepVars>>

CacheService_cleanup(maxAge, fault) ==
    LET st == CacheService_cleanupLoop(0,
                [files |-> files, index |-> index, passed |-> {}], maxAge, fault)
    IN /\ svc = "CacheService"
       /\ Called
       /\ files' = st.files
       /\ index' = st.index
       /\ onlyFreshStores' = FALSE
       /\ lastOp' = [Op("cleanup") EXCEPT !.maxAge = maxAge, !.fault = fault,
                        !.passed = st.passed]
       /\ UNCHANGED <<svc, now, returned, currentModel, ctx, simVars, pipeVars, stepVars>>

---------------------------------------------------------------------------
(* CacheService: hierarchy traversal *)

\* while (currentEntry.parentId): undefined and the empty string end the walk
Truthy(str) == str # Undefined /\ str # ""

CacheService_parentOf(currentEntry) ==
    CacheService_get(Prop(currentEntry, "parentId"), currentEntry.level - 1)

RECURSIVE CacheService_walkUp_Append(_, _)
CacheService_walkUp_Append(results, currentEntry) ==
    IF ~Truthy(Prop(currentEntry, "parentId")) THEN results
    ELSE LET parent == CacheService_parentOf(currentEntry)
         IN IF parent = Null THEN results
            ELSE CacheService_walkUp_Append(Push(results, parent), parent)

RECURSIVE CacheService_walkUp_DropOnMissing(_, _)
CacheService_walkUp_DropOnMissing(results, currentEntry) ==
    IF ~Truthy(Prop(currentEntry, "parentId")) THEN results
    ELSE LET parent == CacheService_parentOf(currentEntry)
         IN IF parent = Null THEN <<>>
            ELSE CacheService_walkUp_DropOnMissing(<<parent>> \o results, parent)

\* the loop over the parents: each parent found is put in front of the
\* results; a parent that cannot be read ends the loop
RECURSIVE CacheService_walkUp(_, _)
CacheService_walkUp(results, currentEntry) ==
    IF ~Truthy(Prop(currentEntry, "parentId")) THEN results
    ELSE LET parent == CacheService_parentOf(currentEntry)
         IN IF parent = Null THEN results
            ELSE CacheService_walkUp(<<parent>> \o results, parent)

RECURSIVE CacheService_childrenIn(_, _, _)
CacheService_childrenIn(names, parentId, level) ==
    IF names = <<>> THEN <<>>
    ELSE LET entry == CacheService_get(Head(names), level)
             rest == CacheService_childrenIn(Tail(names), parentId, level)
         IN IF entry # Null /\ Prop(entry, "parentId") = parentId
            THEN <<entry>> \o rest ELSE rest

CacheService_findChildren_All(parentId, level) ==
    IF level \notin Levels THEN <<>>
    ELSE LET names == Readdir(files[CacheService_getLevelPath(level)])
         IN [i \in 1..Len(names) |-> CacheService_get(names[i], level)]

\* findChildren: the entries of the level that name parentId as their parent,
\* in the order readdir lists them; a level without directory gives none
CacheService_findChildren(parentId, level) ==
    IF level \notin Levels THEN <<>>
    ELSE CacheService_childrenIn(
            Readdir(files[CacheService_getLevelPath(level)]), parentId, level)

\* what getHierarchy returns
CacheService_hierarchyOf(id, level) ==
    LET entry == CacheService_get(id, level)
    IN IF entry = Null THEN <<>>
       ELSE CacheService_walkUp(<<entry>>, entry)
                \o CacheService_findChildren(id, level + 1)

\* getHierarchy reads only; it is not counted among the calls that change
\* the cache
CacheService_getHierarchy(id, level) ==
    /\ svc = "CacheService"
    /\ lastOp' = [Op("getHierarchy") EXCEPT !.id = id, !.level = level,
                    !.result = CacheService_hierarchyOf(id, level)]
    /\ UNCHANGED <<svc, now, nops, files, index, returned, onlyFreshStores,
                   currentModel, ctx, simVars, pipeVars, stepVars>>

---------------------------------------------------------------------------
(* HierarchicalCacheService *)

HierarchicalCacheService_levels == <<"raw", "structured", "summary", "meta">>

HierarchicalCacheService_generateHash(content) == Sha256Hex12[content]

\* the entry object store() builds
HierarchicalCacheService_newEntry(level, content, tags, parentHash) ==
    [level |-> level, content |-> content, tags |-> tags,
     parentHash |-> parentHash, timestamp |-> now]

RECURSIVE HierarchicalCacheService_addTags(_, _, _)
HierarchicalCacheService_addTags(data, hash, tags) ==
    IF tags = <<>> THEN data
    ELSE LET tag == Head(tags)
             d1 == IF tag \in DOMAIN data THEN data ELSE SetKey(data, tag, <<>>)
             d2 == IF Includes(d1[tag], hash) THEN d1
                   ELSE SetKey(d1, tag, Push(d1[tag], hash))
         IN HierarchicalCacheService_addTags(d2, hash, Tail(tags))

HierarchicalCacheService_updateIndex_FirstTag(indexFile, hash, tags) ==
    IndexFile(HierarchicalCacheService_addTags(
        IF Readable(indexFile) THEN indexFile.data ELSE EmptyObject,
        hash, SubSeq(tags, 1, 1)))

\* the failed read is not caught: nothing is written
HierarchicalCacheService_updateIndex_Uncaught(indexFile, hash, tags) ==
    IF Readable(indexFile)
        THEN IndexFile(HierarchicalCacheService_addTags(indexFile.data, hash, tags))
        ELSE indexFile

HierarchicalCacheService_updateIndex(indexFile, hash, tags) ==
    IndexFile(HierarchicalCacheService_addTags(
        IF Readable(indexFile) THEN indexFile.data ELSE EmptyObject, hash, tags))

\* findByTags: the hashes index.json lists under every requested tag, in the
\* order of the first tag's list, each read from its file; a hash whose file
\* cannot be read is skipped, an unreadable index.json gives no result
HierarchicalCacheService_findByTags(tags, level) ==
    LET d == HierarchicalCacheService_levels[level + 1]
        idx == index[d]
        list(tag) == IF tag \in DOMAIN idx.data THEN idx.data[tag] ELSE <<>>
        hashSets == [i \in 1..Len(tags) |-> Range(list(tags[i]))]
        first == IF Len(tags) = 0 THEN <<>> ELSE ArrayFromSet(list(tags[1]))
        every(hash) == \A i \in 1..Len(tags) : hash \in hashSets[i]
        matchingHashes == SelectSeq(first, every)
        readable(hash) == hash \in DOMAIN files[d]
        found == SelectSeq(matchingHashes, readable)
    IN IF ~Readable(idx) THEN <<>>
       ELSE [i \in 1..Len(found) |-> JSONParse(files[d][found[i]])]

HierarchicalCacheService_isExpired(entry, maxAge) ==
    now - entry.timestamp > maxAge

\* the eviction loop of cleanup over one level's listing
RECURSIVE HierarchicalCacheService_evict(_, _, _)
HierarchicalCacheService_evict(dir, names, maxAge) ==
    IF names = <<>> THEN dir
    ELSE LET file == Head(names)
             entry == JSONParse(dir[file])
         IN IF HierarchicalCacheService_isExpired(entry, maxAge)
                THEN HierarchicalCacheService_evict(DeleteKey(dir, file), Tail(names), maxAge)
            ELSE HierarchicalCacheService_evict(dir, Tail(names), maxAge)

RECURSIVE HierarchicalCacheService_indexOf(_, _, _)
HierarchicalCacheService_indexOf(dir, names, data) ==
    IF names = <<>> THEN data
    ELSE LET entry == JSONParse(dir[Head(names)])
         IN HierarchicalCacheService_indexOf(dir, Tail(names),
                HierarchicalCacheService_addTags(data, Head(names), entry.tags))

\* rebuildIndex: the index.json computed from the entries of a directory
HierarchicalCacheService_rebuildIndex(dir) ==
    IndexFile(HierarchicalCacheService_indexOf(dir, Readdir(dir), EmptyObject))

\* cleanup: each level in its own try block, so an error ends that level's
\* pass only.  st = [files, index, passed].
RECURSIVE HierarchicalCacheService_cleanupLoop(_, _, _, _)
HierarchicalCacheService_cleanupLoop(i, st, maxAge, fault) ==
    IF i >= Len(HierarchicalCacheService_levels) THEN st
    ELSE IF fault.level = i /\ fault.kind = "readdir"
        THEN HierarchicalCacheService_cleanupLoop(i + 1, st, maxAge, fault)
    ELSE LET d == HierarchicalCacheService_levels[i + 1]
             kept == HierarchicalCacheService_evict(
                        st.files[d], Readdir(st.files[d]), maxAge)
             evicted == [st EXCEPT !.files[d] = kept]
         IN IF fault.level = i /\ fault.kind = "writeIndex"
                THEN HierarchicalCacheService_cleanupLoop(i + 1, evicted, maxAge, fault)
            ELSE HierarchicalCacheService_cleanupLoop(i + 1,
                    [evicted EXCEPT
                        !.index[d] = HierarchicalCacheService_rebuildIndex(kept),
                        !.passed = @ \cup {i}],
                    maxAge, fault)

\* what store() writes: the entry's file, then the level's index.json
HierarchicalCacheService_write(level, content, tags, parentHash) ==
    LET entry == HierarchicalCacheService_newEntry(level, content, tags, parentHash)
        hash == HierarchicalCacheService_generateHash(content)
        d == HierarchicalCacheService_levels[level + 1]
    IN [hash |-> hash,
        files |-> [files EXCEPT ![d] = SetKey(@, hash, JSONStringify(entry))],
        index |-> [index EXCEPT
                        ![d] = HierarchicalCacheService_updateIndex(@, hash, tags)]]

HierarchicalCacheService_store(level, content, tags, parentHash) ==
    LET written == HierarchicalCacheService_write(level, content, tags, parentHash)
        hash == written.hash
    IN /\ svc = "HierarchicalCacheService"
       /\ Called
       /\ files' = written.files
       /\ index' = written.index
       /\ returned' = returned \cup
            {[svc |-> svc, level |-> level, content |-> content, id |-> hash]}
       /\ onlyFreshStores' =
            (onlyFreshStores /\ ~\E r \in returned : r.level = level /\ r.content = content)
       /\ lastOp' = [Op("store") EXCEPT !.level = level, !.content = content,
                        !.tags = tags, !.parentId = parentHash, !.id = hash]
       /\ UNCHANGED <<svc, now, currentModel, ctx, simVars, pipeVars, stepVars>>

HierarchicalCacheService_cleanup(maxAge, fault) ==
    LET st == HierarchicalCacheService_cleanupLoop(0,
                [files |-> files, index |-> index, passed |-> {}], maxAge, fault)
    IN /\ svc = "HierarchicalCacheService"
       /\ Called
       /\ files' = st.files
       /\ index' = st.index
       /\ onlyFreshStores' = FALSE
       /\ lastOp' = [Op("cleanup") EXCEPT !.maxAge = maxAge, !.fault = fault,
                        !.passed = st.passed]
       /\ UNCHANGED <<svc, now, returned, currentModel, ctx, simVars, pipeVars, stepVars>>

\* a call of findByTags; it reads only
HierarchicalCacheService_findByTags_call(tags, level) ==
    /\ svc = "HierarchicalCacheService"
    /\ lastOp' = [Op("findByTags") EXCEPT !.tags = tags, !.level = level,
                    !.result = HierarchicalCacheService_findByTags(tags, level)]
    /\ UNCHANGED <<svc, now, nops, files, index, returned, onlyFreshStores,
                   currentModel, ctx, simVars, pipeVars, stepVars>>

---------------------------------------------------------------------------
(* Strings.  A message content is the string text repeated `times` times, so *)
(* that a content of several hundred thousand characters can be written.     *)
(* A text repeated more than three times has at least seven characters and   *)
(* a character that is no word character, so that three copies show every    *)
(* marker and every word of the whole.                                       *)

Min(a, b) == IF a < b THEN a ELSE b

\* Math.ceil(a / b) for a >= 0
CeilDiv(a, b) == (a + b - 1) \div b

RECURSIVE Repeat(_, _)
Repeat(str, n) == IF n <= 0 THEN "" ELSE str \o Repeat(str, n - 1)

\* String.prototype.includes
StrIncludes(str, sub) ==
    \E i \in 1..(Len(str) - Len(sub) + 1) : SubSeq(str, i, i + Len(sub) - 1) = sub

Text(str) == [text |-> str, times |-> 1]

length(content) == Len(content.text) * content.times

includes(content, sub) ==
    StrIncludes(Repeat(content.text, Min(content.times, 3)), sub)

\* content.substring(0, n)
substring(content, n) ==
    LET copies == IF Len(content.text) = 0 THEN 0
                  ELSE Min(content.times, (n \div Len(content.text)) + 1)
        full == Repeat(content.text, copies)
    IN SubSeq(full, 1, Min(n, Len(full)))

\* arr.slice(-n)
SliceLast(arr, n) ==
    IF Len(arr) <= n THEN arr ELSE SubSeq(arr, Len(arr) - n + 1, Len(arr))

\* arr.slice(0, -n)
SliceButLast(arr, n) ==
    IF Len(arr) <= n THEN <<>> ELSE SubSeq(arr, 1, Len(arr) - n)

RECURSIVE Join(_, _)
Join(strs, sep) ==
    IF strs = <<>> THEN ""
    ELSE IF Len(strs) = 1 THEN strs[1]
    ELSE strs[1] \o sep \o Join(Tail(strs), sep)

---------------------------------------------------------------------------
(* ModelService *)

ModelType == {"haiku", "sonnet", "opus"}

contextTokenLimit == [haiku |-> 128000, sonnet |-> 200000, opus |-> 200000]

ModelService_getCurrentModel == currentModel

ModelService_getCurrentTokenLimit == contextTokenLimit[currentModel]

---------------------------------------------------------------------------
(* Messages.  Date.now() counts in units of 30 minutes when the context    *)
(* manager reads it; a message without timestamp has timestamp 0, which is *)
(* what (msg.timestamp || 0) makes of it.                                  *)

RecentWindow == 1

CharsPerToken == 4

metadataOverhead == 20

MAX_RECENT_MESSAGES == 10

KeptRecent == 5

isRecent(msg) == now - msg.timestamp < RecentWindow

\* the code fence: three backquotes in the program, written here with three
\* apostrophes because a string of this notation cannot hold a backquote
CodeFence == "'''"

hasCode(msg) ==
    includes(msg.content, CodeFence) \/ includes(msg.content, "systemCommand")

isFileOperation(msg) ==
    \/ includes(msg.content, "CREATE FILE:")
    \/ includes(msg.content, "WRITE TO FILE:")
    \/ includes(msg.content, "DEBUG:")

RECURSIVE SumLength(_)
SumLength(messages) ==
    IF messages = <<>> THEN 0
    ELSE length(Head(messages).content) + SumLength(Tail(messages))

\* what a summarization request ends in: an error, or a text
ApiFailure == [ok |-> FALSE, text |-> ""]

ApiOutcomes == {ApiFailure} \cup {[ok |-> TRUE, text |-> t] : t \in SummaryTexts}

ContextWindow(messages, totalTokens) ==
    [messages |-> messages, totalTokens |-> totalTokens]

---------------------------------------------------------------------------
(* ContextManager, the summarizing class (ContextManager.ts, first class): *)
(* optimizeContext(messages, maxTokens) filters, then summarizes through   *)
(* the cache and the text-generation API, then truncates essential-first.  *)

SummarizingCM_getPriorityMessages(messages) ==
    LET keep(msg) ==
            IF msg.role = "assistant" \/ msg.role = "user"
            THEN isRecent(msg) \/ hasCode(msg) \/ isFileOperation(msg)
            ELSE TRUE
    IN SelectSeq(messages, keep)

SummarizingCM_estimateTokenCount(messages) ==
    CeilDiv(SumLength(messages), CharsPerToken)

SummarizingCM_isEssential(msg) ==
    \/ msg.role = "assistant"
    \/ includes(msg.content, "systemCommand")
    \/ includes(msg.content, "CREATE FILE:")
    \/ includes(msg.content, "DEBUG:")

\* the loop of truncateContext: i runs from the last non-essential message down
RECURSIVE SummarizingCM_addNonEssential(_, _, _, _, _)

SummarizingCM_addNonEssential_KeepNewest(result, currentTokens, nonEssential, i, maxTokens) ==
    IF i = 0 THEN ContextWindow(result, currentTokens)
    ELSE LET msgTokens == SummarizingCM_estimateTokenCount(<<nonEssential[i]>>)
         IN IF i = Len(nonEssential) \/ currentTokens + msgTokens <= maxTokens
            THEN SummarizingCM_addNonEssential(<<nonEssential[i]>> \o result,
                    currentTokens + msgTokens, nonEssential, i - 1, maxTokens)
            ELSE ContextWindow(result, currentTokens)

SummarizingCM_addNonEssential(result, currentTokens, nonEssential, i, maxTokens) ==
    IF i = 0 THEN ContextWindow(result, currentTokens)
    ELSE LET msgTokens == SummarizingCM_estimateTokenCount(<<nonEssential[i]>>)
         IN IF currentTokens + msgTokens <= maxTokens
            THEN SummarizingCM_addNonEssential(<<nonEssential[i]>> \o result,
                    currentTokens + msgTokens, nonEssential, i - 1, maxTokens)
            ELSE ContextWindow(result, currentTokens)

\* truncateContext; warned: logger.warn was called
SummarizingCM_truncateContext(messages, maxTokens) ==
    LET notEssential(msg) == ~SummarizingCM_isEssential(msg)
        essential == SelectSeq(messages, SummarizingCM_isEssential)
        nonEssential == SelectSeq(messages, notEssential)
        essentialTokens == SummarizingCM_estimateTokenCount(essential)
        remainingTokens == maxTokens - essentialTokens
        filled == SummarizingCM_addNonEssential(essential, essentialTokens,
                    nonEssential, Len(nonEssential), maxTokens)
    IN IF remainingTokens <= 0
       THEN [messages |-> essential, totalTokens |-> essentialTokens, warned |-> TRUE]
       ELSE [messages |-> filled.messages, totalTokens |-> filled.totalTokens,
             warned |-> FALSE]

SummarizingCM_generateCacheKey(messages) ==
    Join([i \in 1..Len(messages) |->
            messages[i].role \o ":" \o substring(messages[i].content, 100)], "\n")

Uppers == "ABCDEFGHIJKLMNOPQRSTUVWXYZ"

Lowers == "abcdefghijklmnopqrstuvwxyz"

\* the characters \b does not separate
IsWordChar(c) == StrIncludes(Uppers \o Lowers \o "0123456789_", c)

ToLowerChar(c) ==
    IF StrIncludes(Uppers, c)
    THEN LET i == CHOOSE k \in 1..Len(Uppers) : SubSeq(Uppers, k, k) = c
         IN SubSeq(Lowers, i, i)
    ELSE c

RECURSIVE ToLowerCase(_)
ToLowerCase(str) ==
    IF Len(str) = 0 THEN ""
    ELSE ToLowerChar(SubSeq(str, 1, 1)) \o ToLowerCase(SubSeq(str, 2, Len(str)))

\* the maximal runs of word characters of str, in order: what a pattern
\* \b(?:...)\b can match is one of these runs
Words(str) ==
    LET isWord(i) == IsWordChar(SubSeq(str, i, i))
        starts == {i \in 1..Len(str) : isWord(i) /\ (i = 1 \/ ~isWord(i - 1))}
        nth(k) == CHOOSE i \in starts : Cardinality({j \in starts : j <= i}) = k
        end(i) == CHOOSE j \in i..Len(str) :
                    /\ \A k \in i..j : isWord(k)
                    /\ j = Len(str) \/ ~isWord(j + 1)
    IN [k \in 1..Cardinality(starts) |-> SubSeq(str, nth(k), end(nth(k)))]

\* the alternatives of the eight patterns of extractTags; each pattern is
\* \b(?:...)\b with flags gi, so it matches the words that are, in lower
\* case, one of its alternatives
patterns ==
    << {"javascript", "typescript", "python", "java", "rust", "go"},
       {"react", "vue", "angular", "next", "nest", "express"},
       {"create", "update", "delete", "read", "deploy", "test"},
       {"component", "module", "service", "controller", "middleware"},
       {"docker", "kubernetes", "aws", "azure", "gcp"},
       {"error", "bug", "fix", "issue", "debug"},
       {"file", "directory", "path", "import", "export"},
       {"database", "sql", "nosql", "mongodb", "postgres"} >>

\* match.toLowerCase() of the matches of patterns k, k + 1, ... in turn
RECURSIVE SummarizingCM_matches(_, _)
SummarizingCM_matches(words, k) ==
    IF k > Len(patterns) THEN <<>>
    ELSE LET matched(w) == w \in patterns[k]
         IN SelectSeq(words, matched) \o SummarizingCM_matches(words, k + 1)

\* the tags.add calls one message causes, in order
SummarizingCM_tagsOf(msg) ==
    LET shown == Repeat(msg.content.text, Min(msg.content.times, 3))
        words == Words(shown)
        lower == [k \in 1..Len(words) |-> ToLowerCase(words[k])]
    IN SummarizingCM_matches(lower, 1)
        \o (IF includes(msg.content, "systemCommand")
            THEN <<"system-command">> ELSE <<>>)
        \o (IF includes(msg.content, "CREATE FILE:")
                \/ includes(msg.content, "WRITE TO FILE:")
            THEN <<"file-operation">> ELSE <<>>)
        \o (IF includes(msg.content, "DEBUG:") THEN <<"debug">> ELSE <<>>)

RECURSIVE SummarizingCM_added(_)
SummarizingCM_added(messages) ==
    IF messages = <<>> THEN <<>>
    ELSE SummarizingCM_tagsOf(Head(messages)) \o SummarizingCM_added(Tail(messages))

\* Array.from(tags): a Set keeps each value once, in the order of insertion
SummarizingCM_extractTags(messages) == ArrayFromSet(SummarizingCM_added(messages))

\* a call of optimizeContext as the history variable ctx records it: its
\* arguments, the window it returned and how it got there
Call(variant) ==
    [variant |-> variant, calls |-> 0, messages |-> <<>>, maxTokens |-> 0,
     availableTokens |-> 0, api |-> ApiFailure, modelBefore |-> "haiku",
     modelAfter |-> "haiku", path |-> "none", truncated |-> <<>>,
     warned |-> FALSE, apiCalled |-> FALSE, stored |-> FALSE,
     storedTags |-> <<>>, window |-> ContextWindow(<<>>, 0)]

\* what a call leaves behind that is not its arguments
Outcome(path, window) ==
    [path |-> path, window |-> window, truncated |-> <<>>, warned |-> FALSE,
     apiCalled |-> FALSE, stored |-> FALSE, storedTags |-> <<>>,
     modelAfter |-> currentModel]

Returned(messages, maxTokens, availableTokens, api, outcome) ==
    [variant |-> ctx.variant, calls |-> ctx.calls + 1, messages |-> messages,
     maxTokens |-> maxTokens, availableTokens |-> availableTokens, api |-> api,
     modelBefore |-> currentModel, modelAfter |-> outcome.modelAfter,
     path |-> outcome.path, truncated |-> outcome.truncated,
     warned |-> outcome.warned, apiCalled |-> outcome.apiCalled,
     stored |-> outcome.stored, storedTags |-> outcome.storedTags,
     window |-> outcome.window]

\* the instantiated class is the given one and may be called once more
CanCall(variant) == ctx.variant = variant /\ ctx.calls < MaxCalls

summaryMessage(text) ==
    [role |-> "assistant", content |-> Text(text), timestamp |-> now]

\* summarizeOldMessages: the list it returns, whether it asked the API, what
\* it stored in the cache, the model it leaves selected and whether the
\* fallback logged a warning
SummarizingCM_summarizeOldMessages(messages, maxTokens, api) ==
    LET recentMessages == SliceLast(messages, KeptRecent)
        olderMessages == SliceButLast(messages, KeptRecent)
        same == [messages |-> recentMessages, apiCalled |-> FALSE,
                 stored |-> FALSE, storedTags |-> <<>>,
                 modelAfter |-> currentModel, warned |-> FALSE]
        cacheKey == SummarizingCM_generateCacheKey(olderMessages)
        cachedResults == HierarchicalCacheService_findByTags(<<"summary", cacheKey>>, 2)
        fallback == SummarizingCM_truncateContext(messages, maxTokens)
    IN IF Len(olderMessages) = 0 THEN same
       ELSE IF Len(cachedResults) > 0
       THEN [same EXCEPT
                !.messages = <<summaryMessage(cachedResults[1].content)>>
                                \o recentMessages]
       ELSE IF api.ok
       THEN [same EXCEPT
                !.messages = <<summaryMessage(api.text)>> \o recentMessages,
                !.apiCalled = TRUE, !.stored = TRUE,
                !.storedTags = <<"summary">>
                                \o SummarizingCM_extractTags(olderMessages)]
       ELSE [same EXCEPT
                !.messages = fallback.messages, !.apiCalled = TRUE,
                !.modelAfter = "haiku", !.warned = fallback.warned]

\* the body of optimizeContext
SummarizingCM_optimize(messages, maxTokens, api) ==
    LET priorityMessages == SummarizingCM_getPriorityMessages(messages)
        totalTokens == SummarizingCM_estimateTokenCount(priorityMessages)
        summarized == SummarizingCM_summarizeOldMessages(messages, maxTokens, api)
        summarizedTokens == SummarizingCM_estimateTokenCount(summarized.messages)
        truncated == SummarizingCM_truncateContext(summarized.messages, maxTokens)
        after == [Outcome("summarized",
                          ContextWindow(summarized.messages, summarizedTokens))
                    EXCEPT !.apiCalled = summarized.apiCalled,
                           !.stored = summarized.stored,
                           !.storedTags = summarized.storedTags,
                           !.modelAfter = summarized.modelAfter,
                           !.warned = summarized.warned]
    IN IF totalTokens <= maxTokens
       THEN Outcome("priority", ContextWindow(priorityMessages, totalTokens))
       ELSE IF summarizedTokens <= maxTokens THEN after
       ELSE [after EXCEPT
                !.path = "truncated", !.truncated = summarized.messages,
                !.warned = summarized.warned \/ truncated.warned,
                !.window = ContextWindow(truncated.messages,
                                         truncated.totalTokens)]

\* optimizeContext, with the cache.store and the setModel calls it makes
SummarizingCM_call(messages, maxTokens, api) ==
    /\ ctx.variant = "summarizing"
    /\ ctx' = Returned(messages, maxTokens, maxTokens, api,
                       SummarizingCM_optimize(messages, maxTokens, api))
    /\ currentModel' = ctx'.modelAfter
    /\ files' = IF ctx'.stored
                THEN HierarchicalCacheService_write(2, api.text, ctx'.storedTags,
                                                    Undefined).files
                ELSE files
    /\ index' = IF ctx'.stored
                THEN HierarchicalCacheService_write(2, api.text, ctx'.storedTags,
                                                    Undefined).index
                ELSE index
    /\ UNCHANGED <<svc, now, nops, returned, onlyFreshStores, lastOp,
                   simVars, pipeVars, stepVars>>

---------------------------------------------------------------------------
\* the one call a behaviour of the context specification makes
SummarizingCM_optimizeContext(messages, maxTokens, api) ==
    /\ CanCall("summarizing")
    /\ SummarizingCM_call(messages, maxTokens, api)

---------------------------------------------------------------------------
(* ContextManager, the truncating class (ContextManager.ts, second class): *)
(* optimizeContext(messages, maxTokens?) filters, then truncates.          *)

TruncatingCM_getPriorityMessages(messages) ==
    LET keep(msg) == isRecent(msg) \/ hasCode(msg) \/ isFileOperation(msg)
    IN SelectSeq(messages, keep)

\* Math.ceil of the sum of content.length / 4 + metadataOverhead
TruncatingCM_estimateTokenCount(messages) ==
    CeilDiv(SumLength(messages) + CharsPerToken * metadataOverhead * Len(messages),
            CharsPerToken)

\* the loop of truncateContext over the reversed list: i runs from the last
\* message down
RECURSIVE TruncatingCM_takeRecent(_, _, _, _, _)
TruncatingCM_takeRecent(result, totalTokens, messages, i, maxTokens) ==
    IF i = 0 THEN ContextWindow(result, totalTokens)
    ELSE LET tokens == TruncatingCM_estimateTokenCount(<<messages[i]>>)
         IN IF totalTokens + tokens <= maxTokens
            THEN TruncatingCM_takeRecent(<<messages[i]>> \o result,
                    totalTokens + tokens, messages, i - 1, maxTokens)
            ELSE ContextWindow(result, totalTokens)

TruncatingCM_truncateContext(messages, maxTokens) ==
    TruncatingCM_takeRecent(<<>>, 0, messages, Len(messages), maxTokens)

\* the body of optimizeContext
TruncatingCM_optimize(messages, availableTokens) ==
    LET priorityMessages == TruncatingCM_getPriorityMessages(messages)
        totalTokens == TruncatingCM_estimateTokenCount(priorityMessages)
    IN IF totalTokens <= availableTokens
       THEN Outcome("priority", ContextWindow(priorityMessages, totalTokens))
       ELSE [Outcome("truncated",
                     TruncatingCM_truncateContext(priorityMessages, availableTokens))
                EXCEPT !.truncated = priorityMessages]

\* maxTokens || getCurrentTokenLimit(): a budget of 0 counts as no budget
TruncatingCM_availableTokens(maxTokens) ==
    IF maxTokens # 0 THEN maxTokens ELSE ModelService_getCurrentTokenLimit

TruncatingCM_optimizeContext(messages, maxTokens) ==
    /\ CanCall("truncating")
    /\ ctx' = Returned(messages, maxTokens, TruncatingCM_availableTokens(maxTokens),
                       ApiFailure,
                       TruncatingCM_optimize(messages,
                            TruncatingCM_availableTokens(maxTokens)))
    /\ UNCHANGED <<cacheVars, currentModel, simVars, pipeVars, stepVars>>

---------------------------------------------------------------------------
(* ContextManager of part_004: optimizeContext(messages) takes its budget  *)
(* from ModelService, filters, summarizes through ClaudeService, truncates *)
(* system messages first.                                                  *)

Part004CM_getPriorityMessages(messages) ==
    LET isImportantRole(msg) ==
            /\ msg.role = "assistant"
            /\ \/ includes(msg.content, "code")
               \/ includes(msg.content, "systemCommand")
               \/ includes(msg.content, "error")
        keep(msg) ==
            IF msg.role = "system" THEN TRUE
            ELSE isRecent(msg) \/ hasCode(msg) \/ isFileOperation(msg)
                    \/ isImportantRole(msg)
    IN SelectSeq(messages, keep)

Part004CM_estimateTokenCount_BaseOverhead(messages) ==
    CeilDiv(SumLength(messages)
                + CharsPerToken * metadataOverhead * (Len(messages) + 1),
            CharsPerToken)

\* Math.ceil of the sum of content.length / 4 + metadataOverhead
Part004CM_estimateTokenCount(messages) ==
    CeilDiv(SumLength(messages) + CharsPerToken * metadataOverhead * Len(messages),
            CharsPerToken)

\* without the catch: the failed request leaves the list as it was
Part004CM_summarizeOldMessages_NoFallback(messages, api) ==
    LET isSystem(msg) == msg.role = "system"
        recentMessages == SliceLast(messages, MAX_RECENT_MESSAGES)
        systemMessages == SelectSeq(messages, isSystem)
    IN IF Len(messages) <= MAX_RECENT_MESSAGES THEN messages
       ELSE IF api.ok
       THEN systemMessages \o <<summaryMessage(api.text)>> \o recentMessages
       ELSE messages

Part004CM_summarizeOldMessages(messages, api) ==
    LET isSystem(msg) == msg.role = "system"
        recentMessages == SliceLast(messages, MAX_RECENT_MESSAGES)
        systemMessages == SelectSeq(messages, isSystem)
    IN IF Len(messages) <= MAX_RECENT_MESSAGES THEN messages
       ELSE IF api.ok
       THEN systemMessages \o <<summaryMessage(api.text)>> \o recentMessages
       ELSE SliceLast(messages, MAX_RECENT_MESSAGES)

\* the first loop of truncateContext: every system message that fits is pushed
RECURSIVE Part004CM_takeSystem(_, _, _, _)
Part004CM_takeSystem(result, totalTokens, systemMessages, maxTokens) ==
    IF systemMessages = <<>> THEN ContextWindow(result, totalTokens)
    ELSE LET msg == Head(systemMessages)
             tokens == Part004CM_estimateTokenCount(<<msg>>)
         IN IF totalTokens + tokens <= maxTokens
            THEN Part004CM_takeSystem(Append(result, msg), totalTokens + tokens,
                                      Tail(systemMessages), maxTokens)
            ELSE Part004CM_takeSystem(result, totalTokens,
                                      Tail(systemMessages), maxTokens)

\* the second loop, over the reversed other messages: each that fits is put
\* in front, the first that does not fit ends the loop
RECURSIVE Part004CM_takeRecent(_, _, _, _, _)
Part004CM_takeRecent(result, totalTokens, messages, i, maxTokens) ==
    IF i = 0 THEN ContextWindow(result, totalTokens)
    ELSE LET tokens == Part004CM_estimateTokenCount(<<messages[i]>>)
         IN IF totalTokens + tokens <= maxTokens
            THEN Part004CM_takeRecent(<<messages[i]>> \o result,
                    totalTokens + tokens, messages, i - 1, maxTokens)
            ELSE ContextWindow(result, totalTokens)

Part004CM_truncateContext(messages, maxTokens) ==
    LET isSystem(msg) == msg.role = "system"
        notSystem(msg) == msg.role # "system"
        kept == Part004CM_takeSystem(<<>>, 0, SelectSeq(messages, isSystem), maxTokens)
        others == SelectSeq(messages, notSystem)
    IN Part004CM_takeRecent(kept.messages, kept.totalTokens, others, Len(others),
                            maxTokens)

\* the body of optimizeContext
Part004CM_optimize(messages, availableTokens, api) ==
    LET priorityMessages == Part004CM_getPriorityMessages(messages)
        totalTokens == Part004CM_estimateTokenCount(priorityMessages)
        summarizedMessages == Part004CM_summarizeOldMessages(messages, api)
        summarizedTokens == Part004CM_estimateTokenCount(summarizedMessages)
        after == [Outcome("summarized",
                          ContextWindow(summarizedMessages, summarizedTokens))
                    EXCEPT !.apiCalled = Len(messages) > MAX_RECENT_MESSAGES]
    IN IF totalTokens <= availableTokens
       THEN Outcome("priority", ContextWindow(priorityMessages, totalTokens))
       ELSE IF summarizedTokens <= availableTokens THEN after
       ELSE [after EXCEPT
                !.path = "truncated", !.truncated = summarizedMessages,
                !.window = Part004CM_truncateContext(summarizedMessages,
                                                     availableTokens)]

Part004CM_optimizeContext(messages, api) ==
    /\ CanCall("part_004")
    /\ ctx' = Returned(messages, ModelService_getCurrentTokenLimit,
                       ModelService_getCurrentTokenLimit, api,
                       Part004CM_optimize(messages,
                            ModelService_getCurrentTokenLimit, api))
    /\ UNCHANGED <<cacheVars, currentModel, simVars, pipeVars, stepVars>>

---------------------------------------------------------------------------
(* The clock and the specification of the cache *)

---------------------------------------------------------------------------
(* computeStringSimilarity (utils/similarity.ts): Dice's coefficient over  *)
(* the sets of character pairs of the two normalized strings.  A number is *)
(* the quotient num / den of two integers; the quotient 0 / 0 is NaN.      *)

Number(num, den) == [num |-> num, den |-> den]

IsNaN(x) == x.den = 0

\* x === y: NaN is equal to nothing, itself included
StrictEquals(x, y) ==
    ~IsNaN(x) /\ ~IsNaN(y) /\ x.num * y.den = y.num * x.den

\* x <= y: false when NaN is involved (the denominators are not negative)
LessOrEqual(x, y) ==
    ~IsNaN(x) /\ ~IsNaN(y) /\ x.num * y.den <= y.num * x.den

IsWhiteSpace(c) == c = " "

RECURSIVE TrimStart(_)
TrimStart(str) ==
    IF Len(str) > 0 /\ IsWhiteSpace(SubSeq(str, 1, 1))
    THEN TrimStart(SubSeq(str, 2, Len(str)))
    ELSE str

RECURSIVE TrimEnd(_)
TrimEnd(str) ==
    IF Len(str) > 0 /\ IsWhiteSpace(SubSeq(str, Len(str), Len(str)))
    THEN TrimEnd(SubSeq(str, 1, Len(str) - 1))
    ELSE str

Trim(str) == TrimEnd(TrimStart(str))

normalize(str) == Trim(ToLowerCase(str))

\* the set of the slices str.slice(i, i + 2) for 0 <= i < str.length - 1
getPairs(str) == {SubSeq(str, i, i + 1) : i \in 1..(Len(str) - 1)}

computeStringSimilarity(str1, str2) ==
    LET s1 == normalize(str1)
        s2 == normalize(str2)
        pairs1 == getPairs(s1)
        pairs2 == getPairs(s2)
        intersectionSize == Cardinality({x \in pairs1 : x \in pairs2})
    IN IF s1 = s2 THEN Number(1, 1)
       ELSE IF Len(s1) = 0 \/ Len(s2) = 0 THEN Number(0, 1)
       ELSE Number(2 * intersectionSize,
                   Cardinality(pairs1) + Cardinality(pairs2))

\* no call yet
NoSimilarity == [calls |-> 0, str1 |-> "", str2 |-> "", result |-> Number(0, 1)]

\* a caller computes the similarity of two strings
Similarity(str1, str2) ==
    /\ sim.calls = 0
    /\ sim' = [calls |-> 1, str1 |-> str1, str2 |-> str2,
               result |-> computeStringSimilarity(str1, str2)]
    /\ UNCHANGED <<cacheVars, ctxVars, stepVars, pipeVars>>

---------------------------------------------------------------------------
(* CacheService: search by similarity *)

\* tags && !tags.every(tag => entry.tags.includes(tag))
CacheService_tagsMismatch(entry, tags) ==
    /\ tags # Undefined
    /\ ~\A i \in 1..Len(tags) : Includes(entry.tags, tags[i])

\* similarity >= similarityThreshold
CacheService_reaches_Above(similarity, similarityThreshold) ==
    /\ LessOrEqual(similarityThreshold, similarity)
    /\ ~StrictEquals(similarityThreshold, similarity)

CacheService_reaches(similarity, similarityThreshold) ==
    LessOrEqual(similarityThreshold, similarity)

\* the loop over the listed files
RECURSIVE CacheService_scan(_, _, _, _, _)
CacheService_scan(names, query, level, tags, similarityThreshold) ==
    IF names = <<>> THEN <<>>
    ELSE LET entry == CacheService_get(Head(names), level)
             rest == CacheService_scan(Tail(names), query, level, tags,
                                       similarityThreshold)
             similarity == computeStringSimilarity(query, entry.content)
         IN IF entry = Null THEN rest
            ELSE IF CacheService_tagsMismatch(entry, tags) THEN rest
            ELSE IF CacheService_reaches(similarity, similarityThreshold)
                 THEN <<[entry |-> entry, similarity |-> similarity]>> \o rest
                 ELSE rest

\* (a, b) => b.similarity - a.similarity is positive: b goes before a
CacheService_comesAfter_Ascending(a, b) ==
    a.similarity.num * b.similarity.den > b.similarity.num * a.similarity.den

CacheService_comesAfter(a, b) ==
    b.similarity.num * a.similarity.den > a.similarity.num * b.similarity.den

\* Array.prototype.sort is stable: an element goes behind every element
\* that does not have to come after it
RECURSIVE CacheService_sort(_)
CacheService_sort(results) ==
    IF results = <<>> THEN <<>>
    ELSE LET sorted == CacheService_sort(SubSeq(results, 1, Len(results) - 1))
             last == results[Len(results)]
             k == Cardinality({i \in 1..Len(sorted) :
                                ~CacheService_comesAfter(sorted[i], last)})
         IN SubSeq(sorted, 1, k) \o <<last>> \o SubSeq(sorted, k + 1, Len(sorted))

\* what search returns; readdir of a level without directory throws and
\* the catch returns the empty list
CacheService_searchResults(query, level, tags, similarityThreshold) ==
    IF level \notin Levels THEN <<>>
    ELSE CacheService_sort(CacheService_scan(
            Readdir(files[CacheService_getLevelPath(level)]),
            query, level, tags, similarityThreshold))

\* search reads only
CacheService_search(query, level, tags, similarityThreshold) ==
    /\ svc = "CacheService"
    /\ lastOp' = [Op("search") EXCEPT !.query = query, !.level = level,
                    !.tags = tags, !.threshold = similarityThreshold,
                    !.result = CacheService_searchResults(query, level, tags,
                                                         similarityThreshold)]
    /\ UNCHANGED <<svc, now, nops, files, index, returned, onlyFreshStores,
                   currentModel, ctx, simVars, pipeVars, stepVars>>

---------------------------------------------------------------------------
(* Calls in flight *)

\* the names of the calls that can be in flight together
Procs == {"A", "B"}

\* no call has been made under the name
Idle == [op |-> "none", pc |-> "idle"]

---------------------------------------------------------------------------
(* AdaptivePipeline (services/pipeline/AdaptivePipeline.ts).  A job is the  *)
(* data of one outside call of process(); every invocation of process()    *)
(* draws a fresh id.  JavaScript runs a function up to its first await     *)
(* without interruption, so an invocation up to the start of its first     *)
(* stage, the finally block with processQueue, and one tick of an interval *)
(* are one step each.                                                      *)

Jobs == {"j1", "j2", "j3"}

Priorities == {1, 2}

DropPolicies == {"oldest", "newest", "lowest-priority"}

\* the state after the constructor
AdaptivePipeline_new(backpressure) ==
    [backpressure |-> backpressure,
     processing |-> {},     \* the invocations that run stages: [id, job]
     queue |-> <<>>,        \* the items [id, job, priority]
     intervals |-> {},      \* the items whose checkQueue interval is set
     ids |-> 0,             \* the ids drawn so far
     submitted |-> {},      \* history: the jobs passed to process() from outside
     queued |-> {},         \* history: those of them that were put in the queue
     dropped |-> {},        \* history: the jobs an item of which was dropped
     runs |-> [j \in Jobs |-> 0]]   \* history: how often the stages began on a job

\* backpressure.maxConcurrent || 5 and so on
AdaptivePipeline_defaults ==
    [maxConcurrent |-> 5, queueSize |-> 100, dropPolicy |-> "lowest-priority"]

\* process() below the limit: processing.add(id) and the loop over the stages
AdaptivePipeline_run(p, job) ==
    [p EXCEPT !.ids = @ + 1,
              !.processing = @ \cup {[id |-> p.ids + 1, job |-> job]},
              !.runs[job] = @ + 1]

\* the index the reduce of the lowest-priority policy ends with: the first
\* item of the least priority
AdaptivePipeline_lowestPriorityIndex(queue) ==
    CHOOSE i \in 1..Len(queue) :
        /\ \A k \in 1..Len(queue) : queue[i].priority <= queue[k].priority
        /\ \A k \in 1..(i - 1) : queue[k].priority > queue[i].priority

\* the item applyDropPolicy removes from a queue that is not empty
AdaptivePipeline_dropIndex(queue, dropPolicy) ==
    CASE dropPolicy = "oldest" -> 1
      [] dropPolicy = "newest" -> Len(queue)
      [] dropPolicy = "lowest-priority" -> AdaptivePipeline_lowestPriorityIndex(queue)

AdaptivePipeline_applyDropPolicy(p) ==
    IF p.queue = <<>> THEN p
    ELSE LET i == AdaptivePipeline_dropIndex(p.queue, p.backpressure.dropPolicy)
         IN [p EXCEPT !.queue = SubSeq(@, 1, i - 1) \o SubSeq(@, i + 1, Len(@)),
                      !.dropped = @ \cup {p.queue[i].job}]

\* handleBackpressure: drop when the queue is full, push the item, set the
\* interval that looks for the item every 100 ms
AdaptivePipeline_handleBackpressure(p, job, priority) ==
    LET item == [id |-> p.ids + 1, job |-> job, priority |-> priority]
        room == IF Len(p.queue) >= p.backpressure.queueSize
                THEN AdaptivePipeline_applyDropPolicy(p) ELSE p
    IN [room EXCEPT !.ids = @ + 1,
                    !.queue = Append(@, item),
                    !.intervals = @ \cup {item}]

\* an invocation of process() up to its first await
AdaptivePipeline_invoke(p, job, priority) ==
    IF Cardinality(p.processing) >= p.backpressure.maxConcurrent
    THEN AdaptivePipeline_handleBackpressure(p, job, priority)
    ELSE AdaptivePipeline_run(p, job)

\* queue.sort((a, b) => b.priority - a.priority), which is stable
RECURSIVE AdaptivePipeline_sort(_)
AdaptivePipeline_sort(queue) ==
    IF queue = <<>> THEN <<>>
    ELSE LET sorted == AdaptivePipeline_sort(SubSeq(queue, 1, Len(queue) - 1))
             last == queue[Len(queue)]
             k == Cardinality({i \in 1..Len(sorted) :
                                sorted[i].priority >= last.priority})
         IN SubSeq(sorted, 1, k) \o <<last>> \o SubSeq(sorted, k + 1, Len(sorted))

\* processQueue: the first item of the sorted queue is taken out and its
\* data passed to process()
AdaptivePipeline_processQueue(p) ==
    IF Len(p.queue) = 0
        \/ Cardinality(p.processing) >= p.backpressure.maxConcurrent
    THEN p
    ELSE LET sorted == AdaptivePipeline_sort(p.queue)
             next == Head(sorted)
         IN AdaptivePipeline_invoke([p EXCEPT !.queue = Tail(sorted)],
                                    next.job, next.priority)

\* the item is in the queue: queue.findIndex(item => item.id === id) !== -1
AdaptivePipeline_inQueue(p, id) == \E i \in 1..Len(p.queue) : p.queue[i].id = id

\* process(data, priority) called from outside with the data of a new job
AdaptivePipeline_process(job, priority) ==
    /\ job \notin pipeline.submitted
    /\ pipeline.ids < MaxIds
    /\ pipeline' =
            [AdaptivePipeline_invoke(pipeline, job, priority) EXCEPT
                !.submitted = @ \cup {job},
                !.queued = IF Cardinality(pipeline.processing)
                                >= pipeline.backpressure.maxConcurrent
                           THEN @ \cup {job} ELSE @]
    /\ UNCHANGED <<cacheVars, ctxVars, simVars, stepVars>>

\* the stages of an invocation end, with a result or an error: the finally
\* block deletes the id and calls processQueue
AdaptivePipeline_finally(running) ==
    /\ running \in pipeline.processing
    /\ pipeline.queue = <<>> \/ pipeline.ids < MaxIds
    /\ pipeline' = AdaptivePipeline_processQueue(
                        [pipeline EXCEPT !.processing = @ \ {running}])
    /\ UNCHANGED <<cacheVars, ctxVars, simVars, stepVars>>

\* a tick of the interval of a queued call that finds its item gone: the
\* interval is cleared and the promise resolved with process(data, priority)
AdaptivePipeline_checkQueue(item) ==
    /\ item \in pipeline.intervals
    /\ ~AdaptivePipeline_inQueue(pipeline, item.id)
    /\ pipeline.ids < MaxIds
    /\ pipeline' = AdaptivePipeline_invoke(
                        [pipeline EXCEPT !.intervals = @ \ {item}],
                        item.job, item.priority)
    /\ UNCHANGED <<cacheVars, ctxVars, simVars, stepVars>>

\* the 30 s timer of a queued call: the interval is cleared, the promise
\* rejected; the item stays where it is
AdaptivePipeline_timeout(item) ==
    /\ item \in pipeline.intervals
    /\ pipeline' = [pipeline EXCEPT !.intervals = @ \ {item}]
    /\ UNCHANGED <<cacheVars, ctxVars, simVars, stepVars>>

---------------------------------------------------------------------------
(* The specifications *)

\* the directory the running service keeps a level in
LevelDir(level) ==
    IF svc = "CacheService" THEN CacheService_getLevelPath(level)
    ELSE HierarchicalCacheService_levels[level + 1]

DirNames ==
    {CacheService_getLevelPath(l) : l \in Levels}
        \cup Range(HierarchicalCacheService_levels)

\* Date.now() moves on between calls
Tick ==
    /\ now < MaxTime
    /\ now' = now + 1
    /\ UNCHANGED <<svc, nops, files, index, returned, onlyFreshStores, lastOp,
                   currentModel, ctx, simVars, pipeVars, stepVars>>

\* after the constructor: the directories exist and are empty
Init ==
    /\ svc \in Services
    /\ now = 0
    /\ nops = 0
    /\ files = [d \in DirNames |-> EmptyObject]
    /\ index = [d \in DirNames |-> NoIndex]
    /\ returned = {}
    /\ onlyFreshStores = TRUE
    /\ lastOp = [op |-> "none", level |-> 0, content |-> "", tags |-> <<>>,
                 parentId |-> Undefined, id |-> "", maxAge |-> 0,
                 fault |-> NoFault, passed |-> {},
                 before |-> [d \in DirNames |-> EmptyObject], time |-> 0,
                 result |-> <<>>, query |-> "",
                 threshold |-> [num |-> 0, den |-> 1]]
    /\ currentModel = "haiku"
    /\ ctx = Call("none")
    /\ sim = NoSimilarity
    /\ calls = [p \in Procs |-> Idle]
    /\ trace = <<>>
    /\ crashed = FALSE
    /\ pipeline = AdaptivePipeline_new(AdaptivePipeline_defaults)

Next ==
    \/ Tick
    \/ \E level \in Levels, content \in Contents, tags \in TagLists :
            CacheService_store(level, content, tags, Undefined)
    \/ \E level \in Levels, content \in Contents :
            CacheService_invalidate(CacheService_generateId(content), level)
    \/ \E maxAge \in MaxAges, fault \in Faults :
            CacheService_cleanup(maxAge, fault)
    \/ \E level \in Levels, content \in Contents, tags \in TagLists :
            HierarchicalCacheService_store(level, content, tags, Undefined)
    \/ \E maxAge \in MaxAges, fault \in Faults :
            HierarchicalCacheService_cleanup(maxAge, fault)

Spec == Init /\ [][Next]_vars

\* behaviours that consist of store calls only, with every parent argument
NextStores ==
    \/ \E level \in Levels, content \in ScenarioContents, tags \in TagLists,
          parentId \in ParentArgs :
            CacheService_store(level, content, tags, parentId)
    \/ \E level \in Levels, content \in ScenarioContents, tags \in TagLists,
          parentHash \in ParentArgs :
            HierarchicalCacheService_store(level, content, tags, parentHash)

SpecStores == Init /\ [][NextStores]_vars

\* the parent arguments of the hierarchy behaviours: none, or the id of a
\* content that may or may not be stored one level below
HierarchyParents == {Undefined} \cup {CacheService_generateId(c) : c \in Contents}

InitHierarchy == Init /\ svc = "CacheService"

\* behaviours of CacheService in which entries are stored under parents,
\* invalidated, and hierarchies are read
NextHierarchy ==
    \/ \E level \in Levels, content \in Contents, parentId \in HierarchyParents :
            CacheService_store(level, content, <<"a">>, parentId)
    \/ \E level \in Levels, content \in Contents :
            CacheService_invalidate(CacheService_generateId(content), level)
    \/ \E level \in Levels, content \in Contents :
            CacheService_getHierarchy(CacheService_generateId(content), level)

SpecHierarchy == InitHierarchy /\ [][NextHierarchy]_vars

---------------------------------------------------------------------------
(* The specification of the context manager: one of the three classes is   *)
(* instantiated, the user has selected a model, and optimizeContext is     *)
(* called on a history whose messages were written at or before the time   *)
(* of the call.                                                            *)

Roles == {"user", "assistant", "system"}

LongContent == [text |-> "lorem ipsum ", times |-> 50000]

MessageContents == {Text("hi"), Text("DEBUG: x"), LongContent}

Messages == [role : Roles, content : MessageContents, timestamp : 0..MaxTime]

\* an old plain user message, k of which fill a long history
Filler == [role |-> "user", content |-> Text("hi"), timestamp |-> 0]

Fill(k) == [i \in 1..k |-> Filler]

FillerCounts == {0, KeptRecent, MAX_RECENT_MESSAGES}

\* an old debug report of 650000 characters
OldDebug ==
    [role |-> "user", content |-> [text |-> "DEBUG: lorem ", times |-> 50000],
     timestamp |-> 0]

\* an old reply of the assistant that reports an error and has no marker
OldErrorReply ==
    [role |-> "assistant", content |-> Text("error: x"), timestamp |-> 0]

HistoriesUpTo(n) == UNION {[1..m -> Messages] : m \in 0..n}

\* short histories, alone or after fillers, long histories that open with
\* the old debug report, and short ones that open with the old error reply
Histories ==
    {Fill(k) \o h : k \in FillerCounts, h \in HistoriesUpTo(MaxHistory)}
        \cup {<<OldDebug>> \o Fill(k) \o h :
                k \in FillerCounts \ {0}, h \in HistoriesUpTo(MaxHistory - 1)}
        \cup {<<OldErrorReply>> \o h : h \in HistoriesUpTo(MaxHistory - 1)}

Budgets == {-1, 0, 1, 2, 7, 21, 42, 128000}

Variants == {"summarizing", "truncating", "part_004"}

InitCtx ==
    /\ ctx \in {Call(v) : v \in Variants}
    /\ svc = IF ctx.variant = "summarizing" THEN "HierarchicalCacheService"
             ELSE "CacheService"
    /\ now = MaxTime
    /\ currentModel \in ModelType
    /\ nops = 0
    /\ files = [d \in DirNames |-> EmptyObject]
    /\ index = [d \in DirNames |-> NoIndex]
    /\ returned = {}
    /\ onlyFreshStores = TRUE
    /\ lastOp = [op |-> "none", level |-> 0, content |-> "", tags |-> <<>>,
                 parentId |-> Undefined, id |-> "", maxAge |-> 0,
                 fault |-> NoFault, passed |-> {},
                 before |-> [d \in DirNames |-> EmptyObject], time |-> 0,
                 result |-> <<>>, query |-> "",
                 threshold |-> [num |-> 0, den |-> 1]]
    /\ sim = NoSimilarity
    /\ calls = [p \in Procs |-> Idle]
    /\ trace = <<>>
    /\ crashed = FALSE
    /\ pipeline = AdaptivePipeline_new(AdaptivePipeline_defaults)

NextCtx ==
    \/ /\ CanCall("summarizing")
       /\ \E messages \in Histories, maxTokens \in Budgets, api \in ApiOutcomes :
            SummarizingCM_optimizeContext(messages, maxTokens, api)
    \/ /\ CanCall("truncating")
       /\ \E messages \in Histories, maxTokens \in Budgets :
            TruncatingCM_optimizeContext(messages, maxTokens)
    \/ /\ CanCall("part_004")
       /\ \E messages \in Histories, api \in ApiOutcomes :
            Part004CM_optimizeContext(messages, api)

SpecCtx == InitCtx /\ [][NextCtx]_vars

---------------------------------------------------------------------------
(* The specification of the similarity function: it is applied to two      *)
(* strings over a small alphabet with both cases and white space.          *)

Alphabet == {"a", "b", "A", " "}

RECURSIVE StringsOfLength(_)
StringsOfLength(n) ==
    IF n = 0 THEN {""}
    ELSE {str \o c : str \in StringsOfLength(n - 1), c \in Alphabet}

Strings == UNION {StringsOfLength(n) : n \in 0..MaxStrLen}

NextSimilarity == \E str1 \in Strings, str2 \in Strings : Similarity(str1, str2)

InitSimilarity == Init /\ svc = "CacheService"

SpecSimilarity == InitSimilarity /\ [][NextSimilarity]_vars

---------------------------------------------------------------------------
(* The specification of repeated summarization: the summarizing class is   *)
(* called several times on histories that share their older messages.      *)

MaxReuseCalls == 2

\* the last message of a history
ReuseLast ==
    [role : {"user", "assistant"}, content : {Text("hi")}, timestamp : {0, MaxTime}]

\* an old message, four fillers and a last message: the old message is what
\* summarizeOldMessages takes for the older messages
ReuseHistories ==
    {<<old>> \o Fill(KeptRecent - 1) \o <<last>> :
        old \in {OldDebug, OldErrorReply}, last \in ReuseLast}

ReuseBudgets == {-1, 7, 128000}

InitReuse == InitCtx /\ ctx.variant = "summarizing"

NextReuse ==
    /\ ctx.calls < MaxReuseCalls
    /\ \E messages \in ReuseHistories, maxTokens \in ReuseBudgets,
          api \in ApiOutcomes :
            SummarizingCM_call(messages, maxTokens, api)

SpecReuse == InitReuse /\ [][NextReuse]_vars

---------------------------------------------------------------------------
(* The specification of the tag index under loss: between the calls the    *)
(* index.json of a level can be removed or overwritten with text that is   *)
(* no JSON document.                                                       *)

IndexRemoved(level) ==
    /\ index[LevelDir(level)] # NoIndex
    /\ index' = [index EXCEPT ![LevelDir(level)] = NoIndex]
    /\ lastOp' = [Op("indexRemoved") EXCEPT !.level = level]
    /\ UNCHANGED <<svc, now, nops, files, returned, onlyFreshStores,
                   currentModel, ctx, simVars, pipeVars, stepVars>>

IndexCorrupted(level) ==
    /\ index[LevelDir(level)] # Unparseable
    /\ index' = [index EXCEPT ![LevelDir(level)] = Unparseable]
    /\ lastOp' = [Op("indexCorrupted") EXCEPT !.level = level]
    /\ UNCHANGED <<svc, now, nops, files, returned, onlyFreshStores,
                   currentModel, ctx, simVars, pipeVars, stepVars>>

TagIndexLevels == {0, 1}

TagIndexQueries == {<<"a">>, <<"b", "a">>}

\* a cleanup that runs through, or whose rewrite of one index fails
TagIndexFaults ==
    {NoFault} \cup [level : TagIndexLevels, kind : {"writeIndex"}]

NextTagIndex ==
    \/ Tick
    \/ \E level \in TagIndexLevels, content \in Contents, tags \in TagLists :
            CacheService_store(level, content, tags, Undefined)
    \/ \E level \in TagIndexLevels, content \in Contents :
            CacheService_invalidate(CacheService_generateId(content), level)
    \/ \E level \in TagIndexLevels, content \in Contents, tags \in TagLists :
            HierarchicalCacheService_store(level, content, tags, Undefined)
    \/ \E maxAge \in MaxAges, fault \in TagIndexFaults :
            HierarchicalCacheService_cleanup(maxAge, fault)
    \/ \E tags \in TagIndexQueries, level \in TagIndexLevels :
            HierarchicalCacheService_findByTags_call(tags, level)
    \/ \E level \in TagIndexLevels : IndexRemoved(level)
    \/ \E level \in TagIndexLevels : IndexCorrupted(level)

SpecTagIndex == Init /\ [][NextTagIndex]_vars

---------------------------------------------------------------------------
(* The specification of the search: entries are stored at two levels and   *)
(* searched with queries that equal, resemble or miss their contents.      *)

Queries == {"Alpha ", "b"}

\* 0, the default 0.8, and 1
Thresholds == {Number(0, 1), Number(4, 5), Number(1, 1)}

SearchLevels == {0, 1}

SearchTags == {Undefined, <<"a", "b">>}

StoredTags == {<<"a">>, <<"a", "b">>}

InitSearch == Init /\ svc = "CacheService"

NextSearch ==
    \/ \E level \in SearchLevels, content \in SearchContents, tags \in StoredTags :
            CacheService_store(level, content, tags, Undefined)
    \/ \E query \in Queries, level \in SearchLevels, tags \in SearchTags,
          similarityThreshold \in Thresholds :
            CacheService_search(query, level, tags, similarityThreshold)

SpecSearch == InitSearch /\ [][NextSearch]_vars

---------------------------------------------------------------------------
(* The specification of the pipeline: jobs are passed to a pipeline with a *)
(* small limit of concurrent jobs and a small queue.                       *)

Backpressures ==
    [maxConcurrent : {1, 2}, queueSize : {1, 2}, dropPolicy : DropPolicies]

InitPipeline ==
    /\ svc = "CacheService"
    /\ now = 0
    /\ nops = 0
    /\ files = [d \in DirNames |-> EmptyObject]
    /\ index = [d \in DirNames |-> NoIndex]
    /\ returned = {}
    /\ onlyFreshStores = TRUE
    /\ lastOp = [op |-> "none", level |-> 0, content |-> "", tags |-> <<>>,
                 parentId |-> Undefined, id |-> "", maxAge |-> 0,
                 fault |-> NoFault, passed |-> {},
                 before |-> [d \in DirNames |-> EmptyObject], time |-> 0,
                 result |-> <<>>, query |-> "",
                 threshold |-> [num |-> 0, den |-> 1]]
    /\ currentModel = "haiku"
    /\ ctx = Call("none")
    /\ sim = NoSimilarity
    /\ calls = [p \in Procs |-> Idle]
    /\ trace = <<>>
    /\ crashed = FALSE
    /\ pipeline \in {AdaptivePipeline_new(b) : b \in Backpressures}

NextPipeline ==
    \/ \E job \in Jobs, priority \in Priorities :
            AdaptivePipeline_process(job, priority)
    \/ \E running \in pipeline.processing : AdaptivePipeline_finally(running)
    \/ \E item \in pipeline.intervals : AdaptivePipeline_checkQueue(item)
    \/ \E item \in pipeline.intervals : AdaptivePipeline_timeout(item)

SpecPipeline == InitPipeline /\ [][NextPipeline]_vars

---------------------------------------------------------------------------
(* Properties of the cache *)

\* the creation time an entry document records
TimestampOf(doc) ==
    IF "metadata" \in DOMAIN doc THEN doc.metadata.timestamp ELSE doc.timestamp

HasEveryTag(doc, tags) == \A t \in Range(tags) : Includes(doc.tags, t)

\* index.json of a level lists an id under a tag exactly when the level holds
\* an entry of that id whose tag list contains the tag
IndexConsistent(level) ==
    LET dir == files[LevelDir(level)]
        idx == index[LevelDir(level)]
        listed(tag) == IF tag \in DOMAIN idx.data THEN Range(idx.data[tag]) ELSE {}
        tags == DOMAIN idx.data \cup UNION {Range(dir[n].tags) : n \in DOMAIN dir}
        ids == DOMAIN dir \cup UNION {listed(t) : t \in tags}
    IN /\ Readable(idx)
       /\ \A tag \in tags, id \in ids :
            id \in listed(tag) <=> (id \in DOMAIN dir /\ Includes(dir[id].tags, tag))

CleanupCompleted ==
    lastOp.op = "cleanup" /\ lastOp.fault = NoFault

\* C1: after CacheService.store(level, content, tags) has completed and no
\* other cache-mutating call has run since, get(id, level) with the returned
\* id yields an entry with the stored content and the stored tags.
C1_StoreThenGet ==
    (svc = "CacheService" /\ lastOp.op = "store") =>
        LET e == CacheService_get(lastOp.id, lastOp.level)
        IN /\ e # Null
           /\ e.content = lastOp.content
           /\ e.tags = lastOp.tags

C1_Witness ==
    /\ svc = "CacheService"
    /\ lastOp.op = "store" /\ lastOp.level = 3 /\ lastOp.tags = <<"a", "b">>
    /\ nops = 3
    /\ CacheService_get(lastOp.id, 3) # Null
    /\ CacheService_get(lastOp.id, 3).content = "beta"

\* C2: storing identical content at the same level again returns the same id
\* as before, and after a store the level holds exactly one entry with that
\* content, whatever tags or parent the calls passed.
C2_SameIdOneEntry ==
    /\ \A r1, r2 \in returned :
        (r1.level = r2.level /\ r1.content = r2.content) => r1.id = r2.id
    /\ lastOp.op = "store" =>
        LET dir == files[LevelDir(lastOp.level)]
        IN Cardinality({n \in DOMAIN dir : dir[n].content = lastOp.content}) = 1

C2_Witness ==
    LET old == lastOp.before[LevelDir(lastOp.level)]
    IN /\ lastOp.op = "store"
       /\ lastOp.id \in DOMAIN old
       /\ old[lastOp.id].content = lastOp.content
       /\ old[lastOp.id].tags # lastOp.tags
       /\ lastOp.parentId # Undefined
       /\ DOMAIN old[lastOp.id] \cap {"parentId", "parentHash"} = {}
       /\ DOMAIN files[LevelDir(lastOp.level)] = {lastOp.id}

\* C3: every entry findByTags(tags, level) returns for a non-empty tag list
\* carries every requested tag in its stored tag list.
C3_FoundEntriesCarryTags ==
    svc = "HierarchicalCacheService" =>
        \A level \in Levels, tags \in QueryTagLists :
            LET res == HierarchicalCacheService_findByTags(tags, level)
            IN \A i \in 1..Len(res) : HasEveryTag(res[i], tags)

\* C4: after store calls with pairwise distinct contents per level and no
\* other call, findByTags(tags, level) with a non-empty tag list returns
\* exactly the stored entries whose tag list contains every requested tag,
\* each once.
C4_FindByTagsExact ==
    (svc = "HierarchicalCacheService" /\ onlyFreshStores) =>
        \A level \in Levels, tags \in QueryTagLists :
            LET res == HierarchicalCacheService_findByTags(tags, level)
                dir == files[LevelDir(level)]
            IN /\ Range(res) = {dir[n] : n \in {m \in DOMAIN dir : HasEveryTag(dir[m], tags)}}
               /\ \A i, j \in 1..Len(res) : res[i] = res[j] => i = j

C4_Witness ==
    LET dir == files["raw"]
        res == HierarchicalCacheService_findByTags(<<"a", "b">>, 0)
    IN /\ svc = "HierarchicalCacheService" /\ onlyFreshStores
       /\ {dir[n].tags : n \in DOMAIN dir} = {<<"a">>, <<"a", "b">>, <<"b">>}
       /\ Cardinality(DOMAIN dir) = 3
       /\ Len(res) = 1 /\ res[1].tags = <<"a", "b">>

C6_CleanupRemovesExactlyExpired ==
    CleanupCompleted =>
        \A level \in Levels :
            LET old == lastOp.before[LevelDir(level)]
                young == {n \in DOMAIN old :
                            ~(lastOp.time - TimestampOf(old[n]) > lastOp.maxAge)}
            IN files[LevelDir(level)] = [n \in young |-> old[n]]

C6_Witness ==
    /\ CleanupCompleted
    /\ \E level \in Levels :
        LET old == lastOp.before[LevelDir(level)]
            dir == files[LevelDir(level)]
        IN /\ DOMAIN dir # {}
           /\ DOMAIN old \ DOMAIN dir # {}
           /\ \A n \in DOMAIN dir : dir[n] = old[n]

\* C7: when the cleanup of one level fails, eviction and index rebuild are
\* still performed on every other level.
C7_FailureIsolated ==
    (lastOp.op = "cleanup" /\ lastOp.fault # NoFault) =>
        \A level \in Levels \ {lastOp.fault.level} :
            LET dir == files[LevelDir(level)]
            IN /\ \A n \in DOMAIN dir :
                    ~(lastOp.time - TimestampOf(dir[n]) > lastOp.maxAge)
               /\ IndexConsistent(level)

\* C8: when a cleanup pass over a level has completed, the level's tag index
\* lists an id under a tag if and only if an entry of that id is present at
\* the level and its tag list contains the tag.
C8_IndexConsistentAfterPass ==
    lastOp.op = "cleanup" =>
        \A level \in lastOp.passed : IndexConsistent(level)

C8_Witness ==
    /\ lastOp.op = "cleanup"
    /\ \E level \in lastOp.passed :
        LET old == lastOp.before[LevelDir(level)]
            dir == files[LevelDir(level)]
        IN /\ DOMAIN dir # {}
           /\ DOMAIN old \ DOMAIN dir # {}
           /\ \E n \in DOMAIN dir : Len(dir[n].tags) = 2

---------------------------------------------------------------------------
(* Properties of the context manager *)

\* the token estimate of a list as its class defines it: a quarter of the
\* characters, plus 20 per message in the two classes that count an overhead
TokenEstimate(variant, messages) ==
    LET n == Len(messages)
        chars == IF n = 0 THEN 0 ELSE SumLength(messages)
    IN IF variant = "summarizing" THEN (chars + 3) \div 4
       ELSE (chars + 80 * n + 3) \div 4

\* the essential messages of a list: from the assistant, or carrying a
\* command, a file creation or a debug marker
EssentialOf(messages) == SelectSeq(messages, SummarizingCM_isEssential)

\* C9: optimizeContext of the summarizing class and of part_004 returns a
\* window for every history, budget and outcome of the summarization request
\* (it never throws), and the window's estimated token count is at most the
\* budget (maxTokens, and in part_004 the selected model's token limit), or
\* else the essential messages alone exceed the budget, a warning was logged
\* and the window holds exactly the essential messages.
C9_WindowWithinBudget ==
    (ctx.calls > 0 /\ ctx.variant \in {"summarizing", "part_004"}) =>
        /\ ctx.path \in {"priority", "summarized", "truncated"}
        /\ \/ /\ ctx.window.totalTokens <= ctx.maxTokens
              /\ TokenEstimate(ctx.variant, ctx.window.messages) <= ctx.maxTokens
           \/ /\ ctx.variant = "summarizing"
              /\ ctx.path = "truncated"
              /\ ctx.warned
              /\ ctx.window.messages = EssentialOf(ctx.truncated)
              /\ TokenEstimate(ctx.variant, EssentialOf(ctx.truncated)) > ctx.maxTokens
              /\ ctx.window.totalTokens
                    = TokenEstimate(ctx.variant, EssentialOf(ctx.truncated))

\* a call with a budget of one token whose summarization request failed and
\* whose essential messages need more than the budget: it returned them alone
C9_Witness ==
    /\ ctx.calls > 0
    /\ ctx.variant = "summarizing"
    /\ ctx.maxTokens = 1
    /\ ctx.apiCalled /\ ~ctx.api.ok
    /\ ctx.warned
    /\ ctx.window.totalTokens > ctx.maxTokens
    /\ Len(ctx.window.messages) > 0
    /\ Len(ctx.window.messages) < Len(ctx.messages)

\* C10: optimizeContext on an empty history returns an empty message list
\* and totalTokens = 0, for every budget, in each of the three classes.
C10_EmptyHistoryEmptyWindow ==
    (ctx.calls > 0 /\ ctx.messages = <<>>) =>
        ctx.window = ContextWindow(<<>>, 0)

\* the truncating class was called on the empty history with a negative
\* budget, went through truncateContext and returned the empty window
C10_Witness ==
    /\ ctx.calls > 0
    /\ ctx.variant = "truncating"
    /\ ctx.messages = <<>>
    /\ ctx.maxTokens < 0
    /\ ctx.path = "truncated"
    /\ ctx.window.messages = <<>>
    /\ ctx.window.totalTokens = 0

\* the messages a priority filter is to retain: those of the system, the
\* recent ones, and the ones with a code, command or file-operation marker
PriorityOf(messages) ==
    LET keep(msg) ==
            \/ msg.role = "system"
            \/ isRecent(msg)
            \/ hasCode(msg)
            \/ isFileOperation(msg)
    IN SelectSeq(messages, keep)

\* C11: when the priority set fits the budget, optimizeContext returns
\* exactly the messages that are of the system role, or younger than 30
\* minutes, or carry a code-fence, command or file-operation marker, in
\* their original order, and no other message.
C11_PriorityExact ==
    (ctx.calls > 0 /\ ctx.path = "priority") =>
        ctx.window.messages = PriorityOf(ctx.messages)

---------------------------------------------------------------------------
(* Properties of the hierarchy traversal *)

\* the last call was getHierarchy(id, level) for an entry that is present
HierarchyRead ==
    /\ lastOp.op = "getHierarchy"
    /\ CacheService_get(lastOp.id, lastOp.level) # Null

\* the entries one level above the given one that name id as their parent
ChildrenOf(id, level) ==
    IF level + 1 \notin Levels THEN {}
    ELSE LET dir == files[LevelDir(level + 1)]
         IN {dir[n] : n \in {m \in DOMAIN dir : Prop(dir[m], "parentId") = id}}

\* C12: getHierarchy(id, level) for a present entry that has no parentId and
\* that no entry at level + 1 names as parent returns a list of exactly one
\* element, the entry itself; also at level 3, above which there is no level.
C12_LoneEntryAlone ==
    LET entry == CacheService_get(lastOp.id, lastOp.level)
    IN (/\ HierarchyRead
        /\ Prop(entry, "parentId") = Undefined
        /\ ChildrenOf(lastOp.id, lastOp.level) = {})
          => lastOp.result = <<entry>>

\* a lone entry of level 3 was read while level 0 held other entries
C12_Witness ==
    /\ HierarchyRead
    /\ lastOp.level = 3
    /\ Prop(CacheService_get(lastOp.id, 3), "parentId") = Undefined
    /\ DOMAIN files[LevelDir(0)] # {}
    /\ Len(lastOp.result) = 1

\* the list begins with a chain in which each element is the parent, one
\* level below, of the next, and which ends at position k
ParentChain(result, k) ==
    \A i \in 1..(k - 1) :
        /\ Truthy(Prop(result[i + 1], "parentId"))
        /\ result[i] = CacheService_parentOf(result[i + 1])

\* the element has no parent to go to: it names none, or the one it names
\* is absent
TopOfChain(doc) ==
    \/ ~Truthy(Prop(doc, "parentId"))
    \/ CacheService_parentOf(doc) = Null

\* the list holds, from position k + 1 on, each child of the entry once
ChildrenFrom(result, k, id, level) ==
    /\ {result[j] : j \in (k + 1)..Len(result)} = ChildrenOf(id, level)
    /\ Len(result) - k = Cardinality(ChildrenOf(id, level))

\* C13: getHierarchy(id, level) returns the chain of ancestors from the
\* oldest (lowest level) to the immediate parent, then the requested entry,
\* then exactly the entries at level + 1 whose parentId equals id.
C13_AncestorsEntryChildren ==
    HierarchyRead =>
        \E k \in 1..Len(lastOp.result) :
            /\ lastOp.result[k] = CacheService_get(lastOp.id, lastOp.level)
            /\ ParentChain(lastOp.result, k)
            /\ TopOfChain(lastOp.result[1])
            /\ ChildrenFrom(lastOp.result, k, lastOp.id, lastOp.level)

\* an entry of level 2 was read whose parent and grandparent are present
C13_Witness ==
    /\ HierarchyRead
    /\ lastOp.level = 2
    /\ Len(lastOp.result) = 3
    /\ lastOp.result[3] = CacheService_get(lastOp.id, 2)
    /\ lastOp.result[1].level = 0
    /\ lastOp.result[2].level = 1

\* following the parents of the document leads to one whose parentId names
\* an entry that is absent
RECURSIVE Dangling(_)
Dangling(doc) ==
    /\ Truthy(Prop(doc, "parentId"))
    /\ \/ CacheService_parentOf(doc) = Null
       \/ /\ CacheService_parentOf(doc) # Null
          /\ Dangling(CacheService_parentOf(doc))

\* C14: when the parentId of the entry, or of one of its ancestors, names an
\* entry that is absent, getHierarchy ends the upward walk there and returns
\* the ancestors found so far, the entry and its children, without raising;
\* also when the parentId equals the entry's own id.
C14_DanglingParentEndsWalk ==
    (HierarchyRead /\ Dangling(CacheService_get(lastOp.id, lastOp.level))) =>
        \E k \in 1..Len(lastOp.result) :
            /\ lastOp.result[k] = CacheService_get(lastOp.id, lastOp.level)
            /\ ParentChain(lastOp.result, k)
            /\ Truthy(Prop(lastOp.result[1], "parentId"))
            /\ CacheService_parentOf(lastOp.result[1]) = Null
            /\ ChildrenFrom(lastOp.result, k, lastOp.id, lastOp.level)

\* an entry whose parentId is its own id was read; its parent one level
\* below was found, and that one names a parent that is absent
C14_Witness ==
    /\ HierarchyRead
    /\ Prop(CacheService_get(lastOp.id, lastOp.level), "parentId") = lastOp.id
    /\ Dangling(CacheService_get(lastOp.id, lastOp.level))
    /\ Len(lastOp.result) = 2
    /\ lastOp.result[2] = CacheService_get(lastOp.id, lastOp.level)

---------------------------------------------------------------------------
(* Properties of the similarity function *)

SharedPairs(str1, str2) == getPairs(normalize(str1)) \cap getPairs(normalize(str2))

\* C15: for strings whose normalized forms differ and share no pair of
\* adjacent characters, computeStringSimilarity returns 0; also when both
\* are shorter than two characters.
C15_NoSharedPairsZero ==
    (/\ sim.calls > 0
     /\ normalize(sim.str1) # normalize(sim.str2)
     /\ SharedPairs(sim.str1, sim.str2) = {})
        => StrictEquals(sim.result, Number(0, 1))

\* C16: computeStringSimilarity returns a number of the closed interval
\* [0, 1], and exactly 1 when the normalized strings are identical.
C16_UnitInterval ==
    sim.calls > 0 =>
        /\ LessOrEqual(Number(0, 1), sim.result)
        /\ LessOrEqual(sim.result, Number(1, 1))
        /\ normalize(sim.str1) = normalize(sim.str2)
                => StrictEquals(sim.result, Number(1, 1))

\* C17: computeStringSimilarity(a, b) equals computeStringSimilarity(b, a).
C17_Symmetric ==
    sim.calls > 0 =>
        StrictEquals(sim.result, computeStringSimilarity(sim.str2, sim.str1))

---------------------------------------------------------------------------
(* Calls in flight.  store() and cleanup() are async functions: each await *)
(* of a file-system operation is a point at which another call can run or  *)
(* the process can be killed.  One file-system operation is one step.      *)

\* the awaits of store(), in program order
CacheService_store_awaits_ReadFirst == <<"readIndex", "writeEntry", "writeIndex">>

CacheService_store_awaits_IndexFirst == <<"readIndex", "writeIndex", "writeEntry">>

CacheService_store_awaits == <<"writeEntry", "readIndex", "writeIndex">>

HierarchicalCacheService_store_awaits ==
    <<"ensureDirectories", "writeEntry", "readIndex", "writeIndex">>

StoreAwaits ==
    IF svc = "CacheService" THEN CacheService_store_awaits
    ELSE HierarchicalCacheService_store_awaits

\* the await that follows the given one, or the return
StoreAfter(pc) ==
    LET i == CHOOSE k \in 1..Len(StoreAwaits) : StoreAwaits[k] = pc
    IN IF i = Len(StoreAwaits) THEN "done" ELSE StoreAwaits[i + 1]

InFlight(p) == calls[p].pc \notin {"idle", "done"}

\* a call begins under a free name; the second name is used after the first
CanBegin(p) ==
    /\ ~crashed
    /\ calls[p].pc = "idle"
    /\ p = "B" => calls["A"].pc # "idle"

\* a call that begins while another is in flight overlaps with it
Begin(p, call) ==
    [q \in Procs |->
        IF q = p THEN [call EXCEPT !.alone = \A r \in Procs \ {p} : ~InFlight(r)]
        ELSE IF InFlight(q) THEN [calls[q] EXCEPT !.alone = FALSE]
        ELSE calls[q]]

\* the local variables of a call, and the cache as it was when it began
Frame(op, pc) ==
    [op |-> op, pc |-> pc, level |-> 0, id |-> "", tags |-> <<>>,
     entry |-> Null, idx |-> EmptyObject, names |-> <<>>, maxAge |-> 0,
     startedAt |-> now, alone |-> TRUE,
     before |-> [files |-> files, index |-> index]]

NewEntry(level, content, tags) ==
    IF svc = "CacheService"
    THEN CacheService_newEntry(level, content, tags, Undefined)
    ELSE HierarchicalCacheService_newEntry(level, content, tags, Undefined)

AddTags(data, id, tags) ==
    IF svc = "CacheService" THEN CacheService_addTags(data, id, tags)
    ELSE HierarchicalCacheService_addTags(data, id, tags)

\* the file-system operation of a store that has happened
Event(p, op) == [proc |-> p, op |-> op]

\* store(level, content, tags) runs up to its first await; CacheService has
\* built the entry by then
Store_call(p, level, content, tags) ==
    /\ CanBegin(p)
    /\ calls' = Begin(p,
            [Frame("store", StoreAwaits[1]) EXCEPT
                !.level = level, !.id = Sha256Hex12[content], !.tags = tags,
                !.entry = NewEntry(level, content, tags)])
    /\ UNCHANGED <<cacheVars, ctxVars, simVars, pipeVars, trace, crashed>>

StoreAt(p, pc) ==
    /\ ~crashed
    /\ calls[p].op = "store"
    /\ calls[p].pc = pc

\* await this.ensureDirectories(); the entry is built after it, with the
\* time of that moment
Store_ensureDirectories(p) ==
    /\ StoreAt(p, "ensureDirectories")
    /\ calls' = [calls EXCEPT ![p].pc = StoreAfter("ensureDirectories"),
                    ![p].entry = [@ EXCEPT !.timestamp = now]]
    /\ UNCHANGED <<cacheVars, ctxVars, simVars, pipeVars, trace, crashed>>

\* await fs.writeFile(filePath, JSON.stringify(entry))
Store_writeEntry(p) ==
    /\ StoreAt(p, "writeEntry")
    /\ files' = [files EXCEPT ![LevelDir(calls[p].level)] =
                    SetKey(@, calls[p].id, JSONStringify(calls[p].entry))]
    /\ calls' = [calls EXCEPT ![p].pc = StoreAfter("writeEntry")]
    /\ trace' = Append(trace, Event(p, "writeEntry"))
    /\ UNCHANGED <<svc, now, nops, index, returned, onlyFreshStores, lastOp,
                   ctxVars, simVars, pipeVars, crashed>>

IndexAsRead_Nothing(indexFile) == EmptyObject

\* updateIndex: what readFile and JSON.parse make of index.json; a file that
\* cannot be read leaves the empty object
IndexAsRead(indexFile) ==
    IF Readable(indexFile) THEN indexFile.data ELSE EmptyObject

\* await fs.readFile(indexPath), then the loop over the tags
Store_readIndex(p) ==
    /\ StoreAt(p, "readIndex")
    /\ calls' = [calls EXCEPT ![p].pc = StoreAfter("readIndex"),
                    ![p].idx = AddTags(IndexAsRead(index[LevelDir(calls[p].level)]),
                                       calls[p].id, calls[p].tags)]
    /\ trace' = Append(trace, Event(p, "readIndex"))
    /\ UNCHANGED <<cacheVars, ctxVars, simVars, pipeVars, crashed>>

\* await fs.writeFile(indexPath, JSON.stringify(index))
Store_writeIndex(p) ==
    /\ StoreAt(p, "writeIndex")
    /\ index' = [index EXCEPT ![LevelDir(calls[p].level)] = IndexFile(calls[p].idx)]
    /\ calls' = [calls EXCEPT ![p].pc = StoreAfter("writeIndex")]
    /\ trace' = Append(trace, Event(p, "writeIndex"))
    /\ UNCHANGED <<svc, now, nops, files, returned, onlyFreshStores, lastOp,
                   ctxVars, simVars, pipeVars, crashed>>

\* cleanup(maxAge) runs up to its first await: now is taken, level is 0
Cleanup_call(p, maxAge) ==
    /\ CanBegin(p)
    /\ calls' = Begin(p, [Frame("cleanup", "readdir") EXCEPT !.maxAge = maxAge])
    /\ UNCHANGED <<cacheVars, ctxVars, simVars, pipeVars, trace, crashed>>

CleanupAt(p, pc) ==
    /\ ~crashed
    /\ calls[p].op = "cleanup"
    /\ calls[p].pc = pc

\* what reading and parsing an entry file gives: null, or an exception that
\* is caught, when the file is not there
ReadEntry(name, level) ==
    LET dir == files[LevelDir(level)]
    IN IF name \in DOMAIN dir THEN JSONParse(dir[name]) ELSE Null

\* await fs.readdir(levelPath)
Cleanup_readdir(p) ==
    LET names == Readdir(files[LevelDir(calls[p].level)])
    IN /\ CleanupAt(p, "readdir")
       /\ calls' = [calls EXCEPT ![p].names = names,
                        ![p].pc = IF names = <<>> THEN "rebuildReaddir"
                                  ELSE "readEntry"]
       /\ UNCHANGED <<cacheVars, ctxVars, simVars, pipeVars, trace, crashed>>

\* the entry of the next listed file is read; an expired one is unlinked next
Cleanup_readEntry(p) ==
    LET c == calls[p]
        entry == ReadEntry(Head(c.names), c.level)
        expired == entry # Null /\ c.startedAt - TimestampOf(entry) > c.maxAge
        rest == Tail(c.names)
    IN /\ CleanupAt(p, "readEntry")
       /\ calls' = [calls EXCEPT ![p] =
            IF expired THEN [c EXCEPT !.pc = "unlink"]
            ELSE [c EXCEPT !.names = rest,
                    !.pc = IF rest = <<>> THEN "rebuildReaddir" ELSE "readEntry"]]
       /\ UNCHANGED <<cacheVars, ctxVars, simVars, pipeVars, trace, crashed>>

\* await fs.unlink(filePath); an error is caught and logged
Cleanup_unlink(p) ==
    LET c == calls[p]
        rest == Tail(c.names)
    IN /\ CleanupAt(p, "unlink")
       /\ files' = [files EXCEPT ![LevelDir(c.level)] = DeleteKey(@, Head(c.names))]
       /\ calls' = [calls EXCEPT ![p].names = rest,
                        ![p].pc = IF rest = <<>> THEN "rebuildReaddir"
                                  ELSE "readEntry"]
       /\ UNCHANGED <<svc, now, nops, index, returned, onlyFreshStores, lastOp,
                      ctxVars, simVars, pipeVars, trace, crashed>>

\* rebuildIndex: await fs.readdir(levelPath), index = {}
Cleanup_rebuildReaddir(p) ==
    LET names == Readdir(files[LevelDir(calls[p].level)])
    IN /\ CleanupAt(p, "rebuildReaddir")
       /\ calls' = [calls EXCEPT ![p].names = names, ![p].idx = EmptyObject,
                        ![p].pc = IF names = <<>> THEN "rebuildWrite"
                                  ELSE "rebuildRead"]
       /\ UNCHANGED <<cacheVars, ctxVars, simVars, pipeVars, trace, crashed>>

\* rebuildIndex: the next listed file is read and its tags are added
Cleanup_rebuildRead(p) ==
    LET c == calls[p]
        entry == ReadEntry(Head(c.names), c.level)
        rest == Tail(c.names)
    IN /\ CleanupAt(p, "rebuildRead")
       /\ calls' = [calls EXCEPT ![p].names = rest,
                        ![p].idx = IF entry = Null THEN @
                                   ELSE AddTags(@, Head(c.names), entry.tags),
                        ![p].pc = IF rest = <<>> THEN "rebuildWrite"
                                  ELSE "rebuildRead"]
       /\ UNCHANGED <<cacheVars, ctxVars, simVars, pipeVars, trace, crashed>>

\* rebuildIndex: await fs.writeFile(index.json); the loop goes to the next
\* level or cleanup returns
Cleanup_rebuildWrite(p) ==
    LET c == calls[p]
    IN /\ CleanupAt(p, "rebuildWrite")
       /\ index' = [index EXCEPT ![LevelDir(c.level)] = IndexFile(c.idx)]
       /\ calls' = [calls EXCEPT ![p].level = IF c.level = 3 THEN 3 ELSE c.level + 1,
                        ![p].pc = IF c.level = 3 THEN "done" ELSE "readdir"]
       /\ UNCHANGED <<svc, now, nops, files, returned, onlyFreshStores, lastOp,
                      ctxVars, simVars, pipeVars, trace, crashed>>

\* the process is killed while a call is at an await
Crash ==
    /\ ~crashed
    /\ \E p \in Procs : InFlight(p)
    /\ crashed' = TRUE
    /\ UNCHANGED <<cacheVars, ctxVars, simVars, pipeVars, calls, trace>>

\* Date.now() moves on while calls are in flight or between them
StepTick ==
    /\ ~crashed
    /\ Tick

\* the arguments of the calls in flight
StepLevels == {0, 1}

StepTagLists == {<<"a">>, <<"a", "b">>}

NextSteps ==
    \/ StepTick
    \/ Crash
    \/ \E p \in Procs, level \in StepLevels, content \in Contents,
          tags \in StepTagLists : Store_call(p, level, content, tags)
    \/ \E p \in Procs, maxAge \in MaxAges : Cleanup_call(p, maxAge)
    \/ \E p \in Procs : Store_ensureDirectories(p)
    \/ \E p \in Procs : Store_writeEntry(p)
    \/ \E p \in Procs : Store_readIndex(p)
    \/ \E p \in Procs : Store_writeIndex(p)
    \/ \E p \in Procs : Cleanup_readdir(p)
    \/ \E p \in Procs : Cleanup_readEntry(p)
    \/ \E p \in Procs : Cleanup_unlink(p)
    \/ \E p \in Procs : Cleanup_rebuildReaddir(p)
    \/ \E p \in Procs : Cleanup_rebuildRead(p)
    \/ \E p \in Procs : Cleanup_rebuildWrite(p)

SpecSteps == Init /\ [][NextSteps]_vars

---------------------------------------------------------------------------
(* Properties of the calls in flight *)

\* the position in the trace of the operation of the call, 0 if it has not
\* happened
At(p, op) ==
    IF \E i \in 1..Len(trace) : trace[i] = Event(p, op)
    THEN CHOOSE i \in 1..Len(trace) : trace[i] = Event(p, op)
    ELSE 0

\* C18: within one store() call the write of the entry has completed before
\* the read-modify-write of the level's index begins; the index is never
\* read or written by a store whose entry write has not completed.
C18_EntryBeforeIndex ==
    \A p \in Procs :
        /\ At(p, "readIndex") # 0 =>
                (At(p, "writeEntry") # 0 /\ At(p, "writeEntry") < At(p, "readIndex"))
        /\ At(p, "writeIndex") # 0 =>
                (At(p, "writeEntry") # 0 /\ At(p, "writeEntry") < At(p, "writeIndex"))

\* two stores have run interleaved to their ends
C18_Witness ==
    /\ \A p \in Procs : calls[p].op = "store" /\ calls[p].pc = "done"
    /\ Len(trace) = 6
    /\ trace[1].proc # trace[2].proc
    /\ trace[5].proc # trace[6].proc

\* a store that ran with no other call in flight was interrupted by the kill
Interrupted(p) ==
    /\ crashed
    /\ calls[p].op = "store"
    /\ InFlight(p)
    /\ calls[p].alone

\* the level holds the entry and its index lists it under none of its tags
Untracked(id, level) ==
    LET dir == files[LevelDir(level)]
        idx == index[LevelDir(level)].data
    IN /\ id \in DOMAIN dir
       /\ \A t \in Range(dir[id].tags) :
            t \notin DOMAIN idx \/ ~Includes(idx[t], id)

Quiescent ==
    /\ ~crashed
    /\ \A p \in Procs : calls[p].pc = "done"

\* the level holds an entry whose id the index does not list under one of
\* the entry's tags
LostUpdate(level) ==
    LET dir == files[LevelDir(level)]
        idx == index[LevelDir(level)].data
    IN \E id \in DOMAIN dir : \E t \in Range(dir[id].tags) :
            t \notin DOMAIN idx \/ ~Includes(idx[t], id)

\* C20: calls that have all returned leave an entry out of the index of its
\* level only when two of them were in flight together; and two stores of
\* different content on one level, or a store and a cleanup, can be
\* interleaved so that they do.
C20_LostUpdateNeedsOverlap ==
    (Quiescent /\ \E level \in Levels : LostUpdate(level)) =>
        \A p \in Procs : ~calls[p].alone

\* two stores of different content on one level have returned, both entries
\* are present and the index misses one of them
C20_Witness ==
    /\ Quiescent
    /\ \A p \in Procs : calls[p].op = "store"
    /\ calls["A"].level = calls["B"].level
    /\ calls["A"].id # calls["B"].id
    /\ Cardinality(DOMAIN files[LevelDir(calls["A"].level)]) = 2
    /\ LostUpdate(calls["A"].level)

\* a store and a cleanup have returned, the stored entry is present and the
\* index rebuilt by the cleanup misses it
LostUpdateByCleanup ==
    /\ Quiescent
    /\ \E p, q \in Procs :
        /\ calls[p].op = "store"
        /\ calls[q].op = "cleanup"
        /\ calls[p].id \in DOMAIN files[LevelDir(calls[p].level)]
        /\ LostUpdate(calls[p].level)

---------------------------------------------------------------------------
(* Properties of the parent links *)

\* C21: every stored entry that has a parentId is at a level above 0, so
\* that the parentId refers to a position one level below and following the
\* links never revisits an entry; an entry at level 0 has no parentId.  This
\* holds after any sequence of store calls, whatever their parentId.
C21_ParentStrictlyBelow ==
    \A level \in Levels :
        \A id \in DOMAIN files[LevelDir(level)] :
            Truthy(Prop(files[LevelDir(level)][id], "parentId")) => level > 0

---------------------------------------------------------------------------
(* Properties of the search *)

\* the entries of the level that carry every requested tag and whose
\* similarity to the query is a number not below the threshold
Matching(query, level, tags, threshold) ==
    LET dir == files[LevelDir(level)]
    IN {dir[n] : n \in {m \in DOMAIN dir :
            /\ tags = Undefined \/ HasEveryTag(dir[m], tags)
            /\ LessOrEqual(threshold,
                           computeStringSimilarity(query, dir[m].content))}}

\* C22: search(query, level, tags, threshold) returns exactly the entries
\* of the level that carry every requested tag (when tags are given) and
\* whose similarity to the query is at least the threshold, each once and
\* paired with that similarity, in the order of non-increasing similarity.
C22_SearchExactAndOrdered ==
    lastOp.op = "search" =>
        LET r == lastOp.result
        IN /\ {r[i].entry : i \in 1..Len(r)}
                = Matching(lastOp.query, lastOp.level, lastOp.tags, lastOp.threshold)
           /\ Len(r) = Cardinality({r[i].entry : i \in 1..Len(r)})
           /\ \A i \in 1..Len(r) :
                r[i].similarity
                    = computeStringSimilarity(lastOp.query, r[i].entry.content)
           /\ \A i, j \in 1..Len(r) :
                i < j => LessOrEqual(r[j].similarity, r[i].similarity)

\* a search with a tag and the threshold 0 over three entries returned two
\* of them, the more similar one first, and left out the one without the tag
C22_Witness ==
    /\ lastOp.op = "search"
    /\ lastOp.tags # Undefined
    /\ Cardinality(DOMAIN files[LevelDir(lastOp.level)]) = 3
    /\ Len(lastOp.result) = 2
    /\ ~StrictEquals(lastOp.result[1].similarity, lastOp.result[2].similarity)

---------------------------------------------------------------------------
(* Properties of the tag index under loss *)

\* a step that is a completed store call
StoreStep == nops' = nops + 1 /\ lastOp'.op = "store"

\* a step that is a completed invalidate call
InvalidateStep == nops' = nops + 1 /\ lastOp'.op = "invalidate"

\* the ids index.json lists under every one of the tags
ListedUnderAll(level, tags) ==
    LET idx == index[LevelDir(level)]
        listed(tag) == IF tag \in DOMAIN idx.data THEN Range(idx.data[tag]) ELSE {}
    IN IF Readable(idx) THEN {h \in listed(tags[1]) : \A t \in Range(tags) : h \in listed(t)}
       ELSE {}

\* C23: a tag index that is missing or cannot be parsed counts as empty and
\* raises nothing: findByTags on such a level returns the empty list, and a
\* store on such a level returns its id, leaves the entry readable and
\* leaves an index that lists the id under each of the entry's tags.
C23_UnreadableIndexIsEmpty ==
    [][/\ (lastOp'.op = "findByTags" /\ ~Readable(index'[LevelDir(lastOp'.level)]))
            => lastOp'.result = <<>>
       /\ (StoreStep /\ ~Readable(index[LevelDir(lastOp'.level)])) =>
            LET d == LevelDir(lastOp'.level)
            IN /\ lastOp'.id \in DOMAIN files'[d]
               /\ files'[d][lastOp'.id].content = lastOp'.content
               /\ \E r \in returned' : r.id = lastOp'.id /\ r.level = lastOp'.level
               /\ Readable(index'[d])
               /\ \A t \in Range(lastOp'.tags) :
                    /\ t \in DOMAIN index'[d].data
                    /\ Includes(index'[d].data[t], lastOp'.id)]_vars

\* a store has just completed on a level that holds another entry as well
\* and whose index lists the new id only: the index was unreadable before
C23_Witness ==
    /\ lastOp.op = "store"
    /\ Cardinality(DOMAIN files[LevelDir(lastOp.level)]) = 2
    /\ Readable(index[LevelDir(lastOp.level)])
    /\ \A t \in DOMAIN index[LevelDir(lastOp.level)].data :
            index[LevelDir(lastOp.level)].data[t] = <<lastOp.id>>

\* findByTags has just returned nothing from a level that holds entries and
\* whose index.json cannot be parsed
UnparseableIndexRead ==
    /\ lastOp.op = "findByTags"
    /\ index[LevelDir(lastOp.level)] = Unparseable
    /\ files[LevelDir(lastOp.level)] # EmptyObject
    /\ lastOp.result = <<>>

\* what findByTags has just returned are the entries that the index lists
\* under every requested tag and that are present, each once
FoundAreListedAndPresent ==
    lastOp.op = "findByTags" =>
        LET d == LevelDir(lastOp.level)
            r == lastOp.result
            present == {h \in ListedUnderAll(lastOp.level, lastOp.tags) :
                            h \in DOMAIN files[d]}
        IN /\ {r[i] : i \in 1..Len(r)} = {files[d][h] : h \in present}
           /\ Len(r) = Cardinality(present)

\* C24: invalidate(id, level) of a present entry removes it, so that get(id,
\* level) returns null, and touches no other entry and no index;
\* invalidate of an absent id returns and leaves every entry and every
\* index as they were; findByTags returns the listed entries that can be
\* read and skips a listed id whose entry is gone.
C24_InvalidateRemovesOnlyIt ==
    [][/\ InvalidateStep =>
            LET d == LevelDir(lastOp'.level)
            IN /\ lastOp'.id \notin DOMAIN files'[d]
               /\ \A e \in DirNames :
                    \A n \in DOMAIN files[e] :
                        (e # d \/ n # lastOp'.id) =>
                            n \in DOMAIN files'[e] /\ files'[e][n] = files[e][n]
               /\ \A e \in DirNames : DOMAIN files'[e] \subseteq DOMAIN files[e]
               /\ index' = index
               /\ lastOp'.id \notin DOMAIN files[d] => files' = files
       /\ FoundAreListedAndPresent']_vars

\* invalidate has just removed an entry that the index of its level still
\* lists, and get returns null for it
C24_Witness ==
    /\ lastOp.op = "invalidate"
    /\ lastOp.id \in DOMAIN lastOp.before[LevelDir(lastOp.level)]
    /\ CacheService_get(lastOp.id, lastOp.level) = Null
    /\ \E t \in DOMAIN index[LevelDir(lastOp.level)].data :
            Includes(index[LevelDir(lastOp.level)].data[t], lastOp.id)

\* findByTags has just returned an entry and skipped a listed id whose entry
\* is gone
StaleIdSkipped ==
    /\ lastOp.op = "findByTags"
    /\ Len(lastOp.result) = 1
    /\ Cardinality(ListedUnderAll(lastOp.level, lastOp.tags)) = 2

---------------------------------------------------------------------------
(* Properties of the truncation *)

\* r can be had from m by leaving messages out
RECURSIVE IsSubsequence(_, _)
IsSubsequence(r, m) ==
    IF r = <<>> THEN TRUE
    ELSE IF m = <<>> THEN FALSE
    ELSE IF Head(r) = Head(m) THEN IsSubsequence(Tail(r), Tail(m))
    ELSE IsSubsequence(r, Tail(m))

\* the estimates of the messages of m, each taken alone, added up
RECURSIVE Cumulative(_, _)
Cumulative(variant, m) ==
    IF m = <<>> THEN 0
    ELSE TokenEstimate(variant, <<Head(m)>>) + Cumulative(variant, Tail(m))

\* r is the longest run of the newest messages of m whose cumulative
\* estimate stays within the budget
IsGreedySuffix(variant, r, m, budget) ==
    LET k == Len(m) - Len(r)
    IN /\ k >= 0
       /\ r = SubSeq(m, k + 1, Len(m))
       /\ Cumulative(variant, r) <= budget \/ r = <<>>
       /\ k > 0 => Cumulative(variant, SubSeq(m, k, Len(m))) > budget

\* C25: the messages the truncation step returns are a subsequence of the
\* list it was given, in the original relative order, oldest kept message
\* first.
C25_TruncationKeepsOrder ==
    (ctx.calls > 0 /\ ctx.path = "truncated") =>
        IsSubsequence(ctx.window.messages, ctx.truncated)

\* C25, the choice: the returned messages are the newest ones, taken one by
\* one from the newest back until the first that would push the cumulative
\* estimate over the budget.
C25_TruncationGreedyNewest ==
    (ctx.calls > 0 /\ ctx.path = "truncated") =>
        IsGreedySuffix(ctx.variant, ctx.window.messages, ctx.truncated,
                       ctx.availableTokens)

---------------------------------------------------------------------------
(* Properties of the failed summarization *)

\* the summarization request of the call was made and failed
SummarizationFailed == ctx.calls > 0 /\ ctx.apiCalled /\ ~ctx.api.ok

\* C26: when the summarization request fails, optimizeContext still returns
\* a window, and the window is the fallback: in part_004 it is made of the
\* MAX_RECENT_MESSAGES most recent messages, in the summarizing class of the
\* messages of the history that the truncation keeps, every essential one
\* among them; no summary message is in it.
C26_FailureFallsBack ==
    SummarizationFailed =>
        LET w == ctx.window.messages
        IN /\ ctx.path \in {"summarized", "truncated"}
           /\ Range(w) \subseteq Range(ctx.messages)
           /\ ctx.variant = "part_004" =>
                /\ Range(w) \subseteq
                        Range(SliceLast(ctx.messages, MAX_RECENT_MESSAGES))
                /\ Len(w) <= MAX_RECENT_MESSAGES
           /\ ctx.variant = "summarizing" =>
                /\ IsSubsequence(EssentialOf(ctx.messages), w)
                /\ Len(w) <= Len(ctx.messages)

\* part_004 was called with more than MAX_RECENT_MESSAGES messages, the
\* request failed, and the window holds the most recent ones
C26_Witness ==
    /\ SummarizationFailed
    /\ ctx.variant = "part_004"
    /\ Len(ctx.messages) > MAX_RECENT_MESSAGES
    /\ ctx.window.messages = SliceLast(ctx.messages, MAX_RECENT_MESSAGES)

\* the summarizing class was called, the request failed, and the window
\* holds a part of the history
FailedSummarizingFallsBack ==
    /\ SummarizationFailed
    /\ ctx.variant = "summarizing"
    /\ Len(ctx.window.messages) > 0
    /\ Len(ctx.window.messages) < Len(ctx.messages)

---------------------------------------------------------------------------
(* Properties of the cached summary *)

\* messages.slice(0, -5): what a call summarizes
OlderOf(messages) == SliceButLast(messages, KeptRecent)

\* the call went past the priority filter into summarizeOldMessages
Summarizing == ctx.calls > 0 /\ ctx.path # "priority"

\* C27: when a call of optimizeContext has generated a summary of its older
\* messages and cached it, the next call that has the same older messages
\* and needs a summary takes it from the cache and makes no request to the
\* text-generation API.
C27_CachedSummaryReused ==
    [][(/\ Summarizing /\ ctx.stored
        /\ ctx'.calls = ctx.calls + 1
        /\ OlderOf(ctx'.messages) = OlderOf(ctx.messages)
        /\ Summarizing')
            => ~ctx'.apiCalled]_vars

\* every call that needs a summary of older messages makes a request: the
\* lookup in the cache finds nothing
CacheNeverHit ==
    (Summarizing /\ OlderOf(ctx.messages) # <<>>) => ctx.apiCalled

\* a second call made its request although the summary directory held a
\* summary that the first call had stored
SummaryStoredTwice ==
    /\ ctx.calls = 2
    /\ ctx.apiCalled /\ ctx.stored
    /\ files["summary"] # EmptyObject
    /\ Readable(index["summary"])
    /\ "summary" \in DOMAIN index["summary"].data

---------------------------------------------------------------------------
(* Properties of the token count of the window *)

\* C28: in every window that optimizeContext of part_004 returns,
\* totalTokens is the token estimate of the returned messages, that is
\* ceil(sum(length / 4) + 20 * count) over the returned list, whichever way
\* the window was made.
C28_TotalIsEstimateOfWindow ==
    (ctx.calls > 0 /\ ctx.variant = "part_004") =>
        ctx.window.totalTokens = TokenEstimate(ctx.variant, ctx.window.messages)

\* the same on the ways that do not go through truncateContext
C28_TotalIsEstimateUntruncated ==
    (ctx.calls > 0 /\ ctx.variant = "part_004" /\ ctx.path # "truncated") =>
        ctx.window.totalTokens = TokenEstimate(ctx.variant, ctx.window.messages)

---------------------------------------------------------------------------
(* Properties of the selected model *)

\* C29: after optimizeContext has returned, the model selected in
\* ModelService is the model that was selected before the call, whether the
\* summarization succeeded or failed.
C29_ModelRestored ==
    ctx.calls > 0 => currentModel = ctx.modelBefore

\* the same for the calls whose summarization request did not fail
C29_ModelRestoredOnSuccess ==
    (ctx.calls > 0 /\ ~(ctx.apiCalled /\ ~ctx.api.ok)) =>
        currentModel = ctx.modelBefore

---------------------------------------------------------------------------
(* Properties of the pipeline *)

\* C30: a job that was passed to process() while maxConcurrent jobs were
\* running, and was therefore put in the queue, goes through the stages at
\* most once, whether its item is taken out of the queue by processQueue or
\* removed by the drop policy.
C30_QueuedJobRunsAtMostOnce ==
    \A job \in pipeline.queued : pipeline.runs[job] <= 1

\* a queued job none of whose items was dropped has gone through the
\* stages twice
DequeuedJobRunTwice ==
    \E job \in pipeline.queued \ pipeline.dropped : pipeline.runs[job] = 2

\* a queued job whose item was dropped has gone through the stages
DroppedJobRun ==
    \E job \in pipeline.queued \cap pipeline.dropped : pipeline.runs[job] >= 1

====
